---- MODULE Spec2Model ----
(***************************************************************************)
(* State-machine model of pyUSBtin: the USBtin session object (usbtin.py)  *)
(* with its caller threads, its rx threads and the adapter on the other    *)
(* end of the serial line, and the CANMessage codec (canmessage.py).       *)
(*                                                                         *)
(* Text is a sequence of one-character strings.  The byte 0x07 is the      *)
(* atom BEL.  A CANMessage is a record; its packed 64-bit payload _data    *)
(* is kept as the 8 bytes of pack('<Q', _data), index 1 = byte 0.          *)
(***************************************************************************)
EXTENDS Integers, Sequences, FiniteSets, TLC

CR  == "\r"
BEL == "BEL"

\* ---------------------------------------------------------------------
\* bounds of the model
\* ---------------------------------------------------------------------
MaxConnect  == 1   \* connect() calls
MaxOpen     == 2   \* open_can_channel() calls
MaxStop     == 1   \* close_can_channel() / disconnect() calls
MaxSend     == 2   \* send() calls
MaxTransmit == 1   \* direct transmit() calls (write_mcp_register)
MaxListen   == 1   \* add_message_listener() calls
MaxBel      == 1   \* error markers emitted by the adapter
MaxRxLines  == 1   \* CAN lines emitted by the adapter
MaxParsers  == 2   \* rx threads ever started
MaxFilter   == 1   \* set_filter() calls

\* ---------------------------------------------------------------------
\* small helpers
\* ---------------------------------------------------------------------
Min(a, b) == IF a < b THEN a ELSE b

\* Python slice s[a:b] with 0-based, clipped indices
Slice(s, a, b) == SubSeq(s, a + 1, Min(b, Len(s)))

HexChars == {"0","1","2","3","4","5","6","7","8","9","a","b","c","d","e","f"}

HexVal(c) ==
    CASE c = "0" -> 0  [] c = "1" -> 1  [] c = "2" -> 2  [] c = "3" -> 3
      [] c = "4" -> 4  [] c = "5" -> 5  [] c = "6" -> 6  [] c = "7" -> 7
      [] c = "8" -> 8  [] c = "9" -> 9  [] c = "a" -> 10 [] c = "b" -> 11
      [] c = "c" -> 12 [] c = "d" -> 13 [] c = "e" -> 14 [] c = "f" -> 15

HexDigit(n) ==
    <<"0","1","2","3","4","5","6","7","8","9","a","b","c","d","e","f">>[n + 1]

\* "{:0Wx}".format(n): at least w hex digits, most significant first
RECURSIVE FormatHex(_, _)
FormatHex(n, w) ==
    IF n < 16 /\ w <= 1 THEN <<HexDigit(n)>>
    ELSE Append(FormatHex(n \div 16, w - 1), HexDigit(n % 16))

\* int(s, 16) is defined when s is a non-empty run of hex digits
\* (the model's alphabet has no sign, blank, underscore or 0x prefix)
IsHex(s) == Len(s) > 0 /\ \A i \in 1..Len(s) : s[i] \in HexChars

\* identifiers above MID_MAX are clamped by the constructor, so the value
\* of a longer digit string is kept saturated at MID_MAX + 1
MID_MAX == 536870911     \* 0x1fffffff
STD_MAX == 2047          \* 0x7ff

RECURSIVE ParseHex(_)
ParseHex(s) ==
    IF Len(s) = 0 THEN 0
    ELSE LET hi == ParseHex(SubSeq(s, 1, Len(s) - 1))
         IN  IF hi > MID_MAX \div 16 THEN MID_MAX + 1
             ELSE Min(hi * 16 + HexVal(s[Len(s)]), MID_MAX + 1)

\* ---------------------------------------------------------------------
\* CANMessage
\* ---------------------------------------------------------------------
ZeroData == <<0, 0, 0, 0, 0, 0, 0, 0>>

\* Python's None where a number or a list of bytes is expected
None == -1
NoData == <<None>>

Raise(e) == [ok |-> FALSE, exc |-> e]
Return(v) == [ok |-> TRUE, val |-> v]

\* CANMessage.__init__(mid, data, rtr, dlc) with an empty dbc_info;
\* data is a list of byte values or NoData, dlc a number or None
CANMessage(mid0, data, rtr, dlc) ==
    LET mid == IF mid0 > MID_MAX THEN MID_MAX ELSE mid0
        obj(l, d) == [mid |-> mid, rtr |-> rtr, extended |-> (mid > STD_MAX),
                      dlc |-> l, data |-> d]
    IN  IF rtr THEN Return(obj(dlc, ZeroData))
        ELSE IF data /= NoData
             THEN IF Len(data) > 8 THEN Raise("struct.error")
                  ELSE Return(obj(Len(data),
                           [i \in 1..8 |-> IF i <= Len(data) THEN data[i] ELSE 0]))
             ELSE IF dlc = None THEN Raise("USBtinException")
                  ELSE Return(obj(dlc, ZeroData))

\* CANMessage.to_string
to_string(m) ==
    LET head == IF m.extended
                THEN <<IF m.rtr THEN "R" ELSE "T">> \o FormatHex(m.mid, 8)
                ELSE <<IF m.rtr THEN "r" ELSE "t">> \o FormatHex(m.mid, 3)
        RECURSIVE bytes(_)
        bytes(n) == IF n = 0 THEN <<>>
                    ELSE bytes(n - 1) \o FormatHex(m.data[n], 2)
    IN  head \o FormatHex(m.dlc, 1) \o bytes(Min(m.dlc, 8))

\* the payload loop of from_string: n bytes, the i-th read from the
\* `width` characters at index, index advancing by 2
RECURSIVE ReadData(_, _, _, _)
ReadData(msg, index, n, width) ==
    IF n = 0 THEN Return(<<>>)
    ELSE LET s == Slice(msg, index, index + width)
         IN  IF ~IsHex(s) THEN Raise("ValueError")
             ELSE LET rest == ReadData(msg, index + 2, n - 1, width)
                  IN  IF rest.ok THEN Return(<<ParseHex(s)>> \o rest.val)
                      ELSE rest

\* CANMessage.from_string
from_string(msg) ==
    IF Len(msg) = 0 THEN CANMessage(0, NoData, FALSE, 0)
    ELSE LET mtype == msg[1]
             idlen == IF mtype \in {"r", "t"} THEN 3 ELSE 8
             ids   == Slice(msg, 1, 1 + idlen)
             dlc   == HexVal(msg[1 + idlen + 1])
             dat   == IF mtype = "t" THEN ReadData(msg, 5, dlc, 2)
                      ELSE IF mtype = "T" THEN ReadData(msg, 9, dlc, 1)
                      ELSE Return(<<>>)
         IN  IF mtype \notin {"r", "R", "t", "T"} THEN Raise("UnboundLocalError")
             ELSE IF ~IsHex(ids) THEN Raise("ValueError")
             ELSE IF Len(msg) < 1 + idlen + 1 THEN Raise("IndexError")
             ELSE IF msg[1 + idlen + 1] \notin HexChars THEN Raise("ValueError")
             ELSE IF ~dat.ok THEN dat
             ELSE CANMessage(ParseHex(ids), dat.val, mtype \in {"r", "R"}, dlc)

\* ---------------------------------------------------------------------
\* USBtin session, threads and adapter
\* ---------------------------------------------------------------------
\* USBtin.RX_THREAD_STOPPED, RX_THREAD_RUNNING, RX_THREAD_TERMINATE
RX_THREAD_STOPPED   == 0
RX_THREAD_RUNNING   == 1
RX_THREAD_TERMINATE == 2

\* USBtin.ACTIVE, LISTENONLY, LOOPBACK
ACTIVE     == 0
LISTENONLY == 1
LOOPBACK   == 2

\* the integer 0 stored in a version field (the other values are text)
Int0 == <<"int:0">>

Callers == {"c1", "c2"}
Parsers == 1..MaxParsers

\* inputs of the calls
OpenModes == {ACTIVE}
BaudRates == {125000}
\* the frame of the k-th send(): CANMessage(k, [k])
TxFrame(k) == CANMessage(k, <<k>>, FALSE, None).val
\* the lines the adapter forwards from the bus: a well-formed frame and
\* one whose identifier is not hexadecimal
RxLines == { <<"t","0","0","1","0">>, <<"t","g">> }

VARIABLES
    serial_port,        \* "None" | "open" | "closed"
    rx_thread_state,
    incoming_message,
    listeners,
    tx_fifo,
    firmware_version, hardware_version, serial_number,
    wire,               \* every write to the serial port, in order
    rxbuf,              \* bytes received by the port and not yet read
    devout,             \* bytes the adapter still has to put on the line
    devpos,             \* number of writes the adapter has processed
    devopen,            \* the adapter's CAN channel is open
    callers,            \* per caller thread: position and locals
    parsers,            \* per rx thread: position and locals
    delivered,          \* listener invocations <<listener, frame>>, in order
    count               \* how often each bounded thing happened

vars == <<serial_port, rx_thread_state, incoming_message, listeners, tx_fifo,
          firmware_version, hardware_version, serial_number,
          wire, rxbuf, devout, devpos, devopen, callers, parsers,
          delivered, count>>

session == <<serial_port, rx_thread_state, incoming_message, listeners,
             tx_fifo, firmware_version, hardware_version, serial_number>>
versions == <<firmware_version, hardware_version, serial_number>>
adapter == <<devout, devpos, devopen>>

\* a thread that is not inside send(), the acknowledgement handler or the
\* error-marker handler watches nothing
NoWatch == [on |-> FALSE, q0 |-> <<>>, w0 |-> 0, m0 |-> <<>>, dirty |-> FALSE]
Watch(q, w, m) == [on |-> TRUE, q0 |-> q, w0 |-> w, m0 |-> m, dirty |-> FALSE]

IdleCaller == [pc |-> "idle", op |-> "none", stage |-> 0, arg |-> <<>>,
               resp |-> <<>>, obs |-> <<>>, nw |-> 0, res |-> "none",
               watch |-> NoWatch, loc |-> <<>>]
NoParser == [pc |-> "none", buf |-> <<>>, msg |-> <<>>, idx |-> 0,
             exc |-> "", watch |-> NoWatch]

\* an exception nothing catches ends rx thread r in the call named by at
Dies(r, at) == [r EXCEPT !.pc = "dead", !.exc = at]

Init ==
    /\ serial_port = "None"
    /\ rx_thread_state = RX_THREAD_STOPPED
    /\ incoming_message = <<>>
    /\ listeners = <<>>
    /\ tx_fifo = <<>>
    /\ firmware_version = Int0
    /\ hardware_version = Int0
    /\ serial_number = Int0
    /\ wire = <<>>
    /\ rxbuf = <<>>
    /\ devout = <<>>
    /\ devpos = 0
    /\ devopen = FALSE
    /\ callers = [c \in Callers |-> IdleCaller]
    /\ parsers = [p \in Parsers |-> NoParser]
    /\ delivered = <<>>
    /\ count = [connect |-> 0, open |-> 0, stop |-> 0, send |-> 0,
                transmit |-> 0, listen |-> 0, bel |-> 0, rxl |-> 0,
                spawn |-> 0, filter |-> 0]

\* A step of one thread that changes tx_fifo, incoming_message or the
\* port's output marks the handlers the other threads are in the middle of.
Mark(r) == IF r.watch.on THEN [r EXCEPT !.watch.dirty = TRUE] ELSE r
TouchAll(f) == [u \in DOMAIN f |-> Mark(f[u])]
\* thread t gets record r; the others are marked if touch
SetThread(f, t, r, touch) ==
    [u \in DOMAIN f |-> IF u = t THEN r ELSE IF touch THEN Mark(f[u]) ELSE f[u]]

Bump(k) == [count EXCEPT ![k] = @ + 1]

\* ---------------------------------------------------------------------
\* the adapter (environment): it processes the written lines in order,
\* answers each one, and forwards CAN frames while its channel is open
\* ---------------------------------------------------------------------
IsFrameLine(w) == w[1] \in {"t", "T", "r", "R"}

AnswerOf(w) ==
    CASE w[1] \in {"t", "r"} -> <<"z", CR>>
      [] w[1] \in {"T", "R"} -> <<"Z", CR>>
      [] w[1] = "v" -> <<"v", "1", CR>>
      [] w[1] = "V" -> <<"V", "2", CR>>
      [] w[1] = "N" -> <<"N", "7", CR>>
      [] OTHER -> <<CR>>

OpenAfter(w) ==
    CASE w[1] \in {"O", "L", "l"} -> TRUE
      [] w[1] \in {"C", CR} -> FALSE
      [] OTHER -> devopen

\* the adapter accepts the next written line and answers it, once it has
\* finished the line it is sending
DeviceAnswer ==
    /\ devpos < Len(wire)
    /\ serial_port = "open"
    /\ devout = <<>>
    /\ LET w == wire[devpos + 1]
       IN  /\ IsFrameLine(w) => devopen
           /\ rxbuf' = rxbuf \o AnswerOf(w)
           /\ devopen' = OpenAfter(w)
    /\ devpos' = devpos + 1
    /\ UNCHANGED <<session, wire, devout, callers, parsers, delivered, count>>

\* the adapter rejects the next written line with the error marker (a
\* frame while its channel is closed, or any other failure); it does so
\* at most MaxBel times
DeviceError ==
    /\ devpos < Len(wire)
    /\ serial_port = "open"
    /\ count.bel < MaxBel
    /\ count' = Bump("bel")
    /\ rxbuf' = Append(rxbuf, BEL)
    /\ devpos' = devpos + 1
    /\ UNCHANGED <<session, wire, devout, devopen, callers, parsers, delivered>>

\* the adapter forwards a frame from the bus; the first k bytes of the
\* line reach the port at once
DeviceRxLine ==
    /\ devopen
    /\ serial_port = "open"
    /\ devout = <<>>
    /\ count.rxl < MaxRxLines
    /\ \E l \in RxLines : \E k \in 1..(Len(l) + 1) :
          /\ rxbuf' = rxbuf \o SubSeq(l \o <<CR>>, 1, k)
          /\ devout' = SubSeq(l \o <<CR>>, k + 1, Len(l) + 1)
    /\ count' = Bump("rxl")
    /\ UNCHANGED <<session, wire, devpos, devopen, callers, parsers, delivered>>

\* the rest of the line reaches the port
DeviceEmit ==
    /\ devout /= <<>>
    /\ serial_port = "open"
    /\ rxbuf' = rxbuf \o devout
    /\ devout' = <<>>
    /\ UNCHANGED <<session, wire, devpos, devopen, callers, parsers,
                   delivered, count>>

\* ---------------------------------------------------------------------
\* rx_thread
\* ---------------------------------------------------------------------
\* while self.rx_thread_state == RUNNING: inWaiting() / read(rxcount)
RxLoop(p) ==
    /\ parsers[p].pc = "loop"
    /\ IF rx_thread_state /= RX_THREAD_RUNNING
       THEN /\ parsers' = [parsers EXCEPT ![p].pc = "exit"]
            /\ rxbuf' = rxbuf
       ELSE IF serial_port /= "open"
       THEN /\ parsers' = [parsers EXCEPT ![p] = Dies(@, "inWaiting")]
            /\ rxbuf' = rxbuf
       ELSE /\ rxbuf /= <<>>
            /\ parsers' = [parsers EXCEPT ![p].pc = "byte", ![p].buf = rxbuf]
            /\ rxbuf' = <<>>
    /\ UNCHANGED <<session, wire, adapter, callers, delivered, count>>

\* self.rx_thread_state = USBtin.RX_THREAD_STOPPED
RxExit(p) ==
    /\ parsers[p].pc = "exit"
    /\ rx_thread_state' = RX_THREAD_STOPPED
    /\ parsers' = [parsers EXCEPT ![p].pc = "done"]
    /\ UNCHANGED <<serial_port, incoming_message, listeners, tx_fifo, versions,
                   wire, rxbuf, adapter, callers, delivered, count>>

\* for b in buf: the bytes that need no handler
RxByte(p) ==
    /\ parsers[p].pc = "byte"
    /\ LET buf == parsers[p].buf
       IN  IF buf = <<>>
           THEN /\ parsers' = [parsers EXCEPT ![p].pc = "loop"]
                /\ UNCHANGED <<incoming_message, callers>>
           ELSE LET b == Head(buf)
                    next == [parsers[p] EXCEPT !.buf = Tail(buf)]
                IN  IF b = CR /\ Len(incoming_message) > 0
                    THEN \* a line with an unknown first character
                         /\ incoming_message[1] \notin
                                {"t", "T", "r", "R", "z", "Z"}
                         /\ incoming_message' = <<>>
                         /\ parsers' = SetThread(parsers, p, next, TRUE)
                         /\ callers' = callers
                    ELSE /\ b /= BEL
                         /\ IF b /= CR
                            THEN /\ incoming_message' =
                                        Append(incoming_message, b)
                                 /\ parsers' = SetThread(parsers, p, next, TRUE)
                            ELSE /\ incoming_message' = incoming_message
                                 /\ parsers' = SetThread(parsers, p, next, FALSE)
                         /\ callers' = callers
    /\ UNCHANGED <<serial_port, rx_thread_state, listeners, tx_fifo, versions,
                   wire, rxbuf, adapter, delivered, count>>

\* a complete line starting with t, T, r or R: CANMessage.from_string
RxFrameLine(p) ==
    /\ parsers[p].pc = "byte"
    /\ parsers[p].buf /= <<>>
    /\ Head(parsers[p].buf) = CR
    /\ Len(incoming_message) > 0
    /\ incoming_message[1] \in {"t", "T", "r", "R"}
    /\ LET r == from_string(incoming_message)
       IN  IF r.ok
           THEN parsers' = [parsers EXCEPT ![p].pc = "dispatch",
                                           ![p].msg = <<r.val>>,
                                           ![p].idx = 0]
           ELSE parsers' = [parsers EXCEPT ![p] = Dies(@, "from_string")]
    /\ UNCHANGED <<session, wire, rxbuf, adapter, callers, delivered, count>>

\* for listener in self.listeners: listener(canmsg)
RxDispatch(p) ==
    /\ parsers[p].pc = "dispatch"
    /\ IF parsers[p].idx < Len(listeners)
       THEN /\ delivered' = Append(delivered,
                    <<listeners[parsers[p].idx + 1], parsers[p].msg[1]>>)
            /\ parsers' = [parsers EXCEPT ![p].idx = @ + 1]
       ELSE /\ delivered' = delivered
            /\ parsers' = [parsers EXCEPT ![p].pc = "clear"]
    /\ UNCHANGED <<session, wire, rxbuf, adapter, callers, count>>

\* a complete line starting with z or Z: self.tx_fifo.pop(0)
RxAckLine(p) ==
    /\ parsers[p].pc = "byte"
    /\ parsers[p].buf /= <<>>
    /\ Head(parsers[p].buf) = CR
    /\ Len(incoming_message) > 0
    /\ incoming_message[1] \in {"z", "Z"}
    /\ IF tx_fifo = <<>>
       THEN /\ parsers' = [parsers EXCEPT ![p] = Dies(@, "pop")]
            /\ UNCHANGED <<tx_fifo, callers>>
       ELSE /\ tx_fifo' = Tail(tx_fifo)
            /\ parsers' = SetThread(parsers, p,
                   [parsers[p] EXCEPT !.pc = "ack_send",
                        !.watch = Watch(tx_fifo, Len(wire), incoming_message)],
                   TRUE)
            /\ callers' = TouchAll(callers)
    /\ UNCHANGED <<serial_port, rx_thread_state, incoming_message, listeners,
                   versions, wire, rxbuf, adapter, delivered, count>>

\* variant of RxBell that never resends: the error marker is only skipped
RxBell_NoResend(p) ==
    /\ parsers[p].pc = "byte"
    /\ parsers[p].buf /= <<>>
    /\ Head(parsers[p].buf) = BEL
    /\ parsers' = [parsers EXCEPT
          ![p].pc = "bel_ret",
          ![p].watch = Watch(tx_fifo, Len(wire), incoming_message)]
    /\ UNCHANGED <<session, wire, rxbuf, adapter, callers, delivered, count>>

\* the byte 0x07: send_first_tx_fifo_message, its length test
RxBell(p) ==
    /\ parsers[p].pc = "byte"
    /\ parsers[p].buf /= <<>>
    /\ Head(parsers[p].buf) = BEL
    /\ parsers' = [parsers EXCEPT
          ![p].pc = IF Len(tx_fifo) = 0 THEN "bel_ret" ELSE "bel_write",
          ![p].watch = Watch(tx_fifo, Len(wire), incoming_message)]
    /\ UNCHANGED <<session, wire, rxbuf, adapter, callers, delivered, count>>

\* variant of RxAckSend that never sends the new head
RxAckSend_NoResend(p) ==
    /\ parsers[p].pc = "ack_send"
    /\ parsers' = [parsers EXCEPT ![p].pc = "clear"]
    /\ UNCHANGED <<session, wire, rxbuf, adapter, callers, delivered, count>>

\* send_first_tx_fifo_message after the pop: its length test
RxAckSend(p) ==
    /\ parsers[p].pc = "ack_send"
    /\ parsers' = [parsers EXCEPT
          ![p].pc = IF Len(tx_fifo) = 0 THEN "clear" ELSE "ack_write"]
    /\ UNCHANGED <<session, wire, rxbuf, adapter, callers, delivered, count>>

\* send_first_tx_fifo_message: canmsg = self.tx_fifo[0]; serial_port.write
RxWrite(p) ==
    /\ parsers[p].pc \in {"ack_write", "bel_write"}
    /\ IF tx_fifo = <<>> \/ serial_port /= "open"
       THEN /\ parsers' = [parsers EXCEPT ![p] = Dies(@, "send_first")]
            /\ UNCHANGED <<wire, callers>>
       ELSE /\ wire' = Append(wire, to_string(Head(tx_fifo)) \o <<CR>>)
            /\ parsers' = SetThread(parsers, p,
                   [parsers[p] EXCEPT !.pc =
                        IF parsers[p].pc = "ack_write" THEN "clear"
                                                       ELSE "bel_ret"],
                   TRUE)
            /\ callers' = TouchAll(callers)
    /\ UNCHANGED <<session, rxbuf, adapter, delivered, count>>

\* self.incoming_message = "" and on to the next byte
RxClear(p) ==
    /\ parsers[p].pc = "clear"
    /\ incoming_message' = <<>>
    /\ parsers' = SetThread(parsers, p,
           [parsers[p] EXCEPT !.pc = "byte", !.buf = Tail(@),
                              !.msg = <<>>, !.idx = 0, !.watch = NoWatch],
           TRUE)
    /\ UNCHANGED <<serial_port, rx_thread_state, listeners, tx_fifo, versions,
                   wire, rxbuf, adapter, callers, delivered, count>>

\* the error-marker handler is finished: on to the next byte
RxBellReturn(p) ==
    /\ parsers[p].pc = "bel_ret"
    /\ parsers' = [parsers EXCEPT ![p].pc = "byte", ![p].buf = Tail(@),
                                  ![p].watch = NoWatch]
    /\ UNCHANGED <<session, wire, rxbuf, adapter, callers, delivered, count>>

RxStep(p) ==
    \/ RxLoop(p) \/ RxExit(p) \/ RxByte(p) \/ RxFrameLine(p)
    \/ RxDispatch(p) \/ RxAckLine(p) \/ RxBell(p) \/ RxAckSend(p)
    \/ RxWrite(p) \/ RxClear(p) \/ RxBellReturn(p)

\* ---------------------------------------------------------------------
\* the calls of a caller thread.  connect() comes first: the other calls
\* are made on a session that has a serial port (before connect() they end
\* in an AttributeError on self.serial_port = None).
\* ---------------------------------------------------------------------
\* baud_dict of open_can_channel
BaudDict(b) ==
    CASE b = 10000 -> "0"  [] b = 20000 -> "1"  [] b = 50000 -> "2"
      [] b = 100000 -> "3" [] b = 125000 -> "4" [] b = 250000 -> "5"
      [] b = 500000 -> "6" [] b = 800000 -> "7" [] b = 1000000 -> "8"

\* mode_dict of open_can_channel, 'L' for a mode it does not hold
ModeTx(mode) ==
    CASE mode = LISTENONLY -> "L"
      [] mode = LOOPBACK -> "l"
      [] mode = ACTIVE -> "O"
      [] OTHER -> "L"

\* write_mcp_register: "W{:02x}{:02x}".format(register, value)
McpCmd(register, value) ==
    <<"W">> \o FormatHex(register, 2) \o FormatHex(value, 2)

\* the command the call in progress hands to transmit()
Cmd(r) ==
    CASE r.op = "connect" ->
            (CASE r.stage = 1 -> <<"v">>
               [] r.stage = 2 -> <<"V">>
               [] r.stage = 3 -> <<"N">>
               [] OTHER -> <<"W", "2", "D", "0", "0">>)
      [] r.op = "open" ->
            (IF r.stage = 1 THEN <<"S", BaudDict(r.arg[1])>>
             ELSE <<ModeTx(r.arg[2])>>)
      [] OTHER -> McpCmd(r.arg[1], r.arg[2])

\* the call ends: with an exception, or with a result
Failed(r, e) == [r EXCEPT !.pc = "ret", !.res = e]
Done(r, v) == [r EXCEPT !.pc = "ret", !.res = v]

\* self.serial_port.write(text) by caller c whose record becomes r
WriteLine(c, r, text, nextpc) ==
    IF serial_port = "open"
    THEN /\ wire' = Append(wire, text)
         /\ callers' = SetThread(callers, c,
                [r EXCEPT !.pc = nextpc, !.nw = @ + 1], TRUE)
         /\ parsers' = TouchAll(parsers)
    ELSE /\ wire' = wire
         /\ callers' = [callers EXCEPT ![c] = Failed(r, "SerialException")]
         /\ parsers' = parsers

\* connect(): serial.Serial(...), write("\rC\r")
Connect(c) ==
    /\ callers[c].pc = "idle"
    /\ count.connect < MaxConnect
    /\ serial_port /= "open"
    /\ serial_port' = "open"
    /\ wire' = Append(wire, <<CR, "C", CR>>)
    /\ callers' = SetThread(callers, c,
           [callers[c] EXCEPT !.pc = "k_flush", !.op = "connect", !.nw = 1],
           TRUE)
    /\ parsers' = TouchAll(parsers)
    /\ count' = Bump("connect")
    /\ UNCHANGED <<rx_thread_state, incoming_message, listeners, tx_fifo,
                   versions, rxbuf, adapter, delivered>>

\* connect(): flush(), flushInput()
ConnectFlush(c) ==
    /\ callers[c].pc = "k_flush"
    /\ rxbuf' = <<>>
    /\ callers' = [callers EXCEPT ![c].pc = "k_close"]
    /\ UNCHANGED <<session, wire, adapter, parsers, delivered, count>>

\* connect(): write("C\r")
ConnectClose(c) ==
    /\ callers[c].pc = "k_close"
    /\ WriteLine(c, callers[c], <<"C", CR>>, "k_wait")
    /\ UNCHANGED <<session, rxbuf, adapter, delivered, count>>

\* connect(): read(1) until '\r' or 0x07, then transmit("v")
ConnectWait(c) ==
    /\ callers[c].pc = "k_wait"
    /\ rxbuf /= <<>>
    /\ rxbuf' = Tail(rxbuf)
    /\ callers' = IF Head(rxbuf) \in {CR, BEL}
                  THEN [callers EXCEPT ![c].pc = "tx_write", ![c].stage = 1]
                  ELSE callers
    /\ UNCHANGED <<session, wire, adapter, parsers, delivered, count>>

\* transmit() has returned v (is_none: it returned None) to the call in
\* progress, whose record is r
AfterTransmit(c, r, v, is_none) ==
    IF r.op = "connect"
    THEN IF r.stage <= 3 /\ is_none
         THEN /\ callers' = [callers EXCEPT ![c] = Failed(r, "TypeError")]
              /\ UNCHANGED versions
         ELSE /\ firmware_version' =
                    IF r.stage = 1 THEN Slice(v, 1, Len(v)) ELSE firmware_version
              /\ hardware_version' =
                    IF r.stage = 2 THEN Slice(v, 1, Len(v)) ELSE hardware_version
              /\ serial_number' =
                    IF r.stage = 3 THEN Slice(v, 1, Len(v)) ELSE serial_number
              /\ callers' = [callers EXCEPT ![c] =
                    IF r.stage = 4 THEN Done(r, "ok")
                    ELSE [r EXCEPT !.pc = "tx_write", !.stage = @ + 1]]
    ELSE /\ UNCHANGED versions
         /\ callers' = [callers EXCEPT ![c] =
               IF r.op = "open"
               THEN IF r.stage = 1
                    THEN [r EXCEPT !.pc = "tx_write", !.stage = 2]
                    ELSE [r EXCEPT !.pc = "start_rx"]
               ELSE IF r.op = "filter"
               THEN [r EXCEPT !.pc = "sf_next"]
               ELSE Done(r, IF is_none THEN "None" ELSE "response")]

\* transmit(): self.serial_port.write((cmd + "\r").encode('ascii'))
TxWrite(c) ==
    /\ callers[c].pc = "tx_write"
    /\ WriteLine(c, callers[c], Cmd(callers[c]) \o <<CR>>, "tx_check")
    /\ UNCHANGED <<session, rxbuf, adapter, delivered, count>>

\* variant of TxCheck that calls read_response() in every state
TxCheck_AlwaysRead(c) ==
    /\ callers[c].pc = "tx_check"
    /\ callers' = [callers EXCEPT ![c].obs = <<rx_thread_state>>,
                                  ![c].pc = "rr_check"]
    /\ UNCHANGED <<session, wire, rxbuf, adapter, parsers, delivered, count>>

\* transmit(): if self.rx_thread_state != RUNNING: return read_response()
TxCheck(c) ==
    /\ callers[c].pc = "tx_check"
    /\ LET r == [callers[c] EXCEPT !.obs = <<rx_thread_state>>]
       IN  IF rx_thread_state /= RX_THREAD_RUNNING
           THEN /\ callers' = [callers EXCEPT ![c] = [r EXCEPT !.pc = "rr_check"]]
                /\ UNCHANGED versions
           ELSE AfterTransmit(c, r, <<>>, TRUE)
    /\ UNCHANGED <<serial_port, rx_thread_state, incoming_message, listeners,
                   tx_fifo, wire, rxbuf, adapter, parsers, delivered, count>>

\* read_response(): if self.rx_thread_state != STOPPED: raise
RrCheck(c) ==
    /\ callers[c].pc = "rr_check"
    /\ LET r == [callers[c] EXCEPT !.obs = Append(@, rx_thread_state)]
       IN  callers' = [callers EXCEPT ![c] =
               IF rx_thread_state /= RX_THREAD_STOPPED
               THEN Failed(r, "USBtinException")
               ELSE [r EXCEPT !.pc = "rr_read", !.resp = <<>>]]
    /\ UNCHANGED <<session, wire, rxbuf, adapter, parsers, delivered, count>>

\* variant of RrRead that takes the error marker for a response byte
RrRead_NoBel(c) ==
    /\ callers[c].pc = "rr_read"
    /\ LET r == callers[c]
       IN  IF serial_port /= "open"
           THEN /\ callers' = [callers EXCEPT ![c] = Failed(r, "SerialException")]
                /\ UNCHANGED <<versions, rxbuf>>
           ELSE /\ rxbuf /= <<>>
                /\ rxbuf' = Tail(rxbuf)
                /\ IF Head(rxbuf) = CR
                   THEN AfterTransmit(c, r, r.resp, FALSE)
                   ELSE /\ UNCHANGED versions
                        /\ callers' = [callers EXCEPT ![c] =
                              [r EXCEPT !.resp = Append(@, Head(rxbuf))]]
    /\ UNCHANGED <<serial_port, rx_thread_state, incoming_message, listeners,
                   tx_fifo, wire, adapter, parsers, delivered, count>>

\* read_response(): b = self.serial_port.read(1)
RrRead(c) ==
    /\ callers[c].pc = "rr_read"
    /\ LET r == callers[c]
       IN  IF serial_port /= "open"
           THEN /\ callers' = [callers EXCEPT ![c] = Failed(r, "SerialException")]
                /\ UNCHANGED <<versions, rxbuf>>
           ELSE /\ rxbuf /= <<>>
                /\ rxbuf' = Tail(rxbuf)
                /\ IF Head(rxbuf) = CR
                   THEN AfterTransmit(c, r, r.resp, FALSE)
                   ELSE /\ UNCHANGED versions
                        /\ callers' = [callers EXCEPT ![c] =
                              IF Head(rxbuf) = BEL
                              THEN Failed(r, "USBtinException")
                              ELSE [r EXCEPT !.resp = Append(@, Head(rxbuf))]]
    /\ UNCHANGED <<serial_port, rx_thread_state, incoming_message, listeners,
                   tx_fifo, wire, adapter, parsers, delivered, count>>

\* the keys of baud_dict
Presets == {10000, 20000, 50000, 100000, 125000, 250000, 500000, 800000,
            1000000}

\* fosc = 24000000.0
FOSC == 24000000

\* A float of the bit-timing search: the number val with a rounding error
\* of eps units in its last place (eps in -1..1).  xdesired = fosc /
\* baudrate is kept as the exact fraction FOSC / baudrate.
Flt(v, e) == [val |-> v, eps |-> e]

\* the locals of the bit-timing search; diffopt is kept multiplied by
\* baudrate, inexact tells whether a rounding error went into it
BitTimeLoc(x, xopt, diffopt, inexact, brpopt) ==
    [x |-> x, xopt |-> xopt, diffopt |-> diffopt, inexact |-> inexact,
     brpopt |-> brpopt]

\* xbrp = (xdesired * 10) / x; m = xbrp % 20; if m >= 10: xbrp += 20;
\* xbrp -= m; xbrp /= 10.  The value is 2 * round(FOSC / (2 * baudrate *
\* x)), halves up.  xbrp - m is exact; (xbrp + 20) - m is rounded after the
\* addition, so the result may be off by one unit in the last place; the
\* rounding of xbrp decides an exact half.
RoundBrp(baudrate, x) ==
    LET den == 2 * baudrate * x
        lo  == FOSC \div den
        rm  == FOSC % den
        down == {Flt(2 * lo, 0)}
        up   == {Flt(2 * (lo + 1), e) : e \in {-1, 0, 1}}
    IN  IF 2 * rm < den THEN down
        ELSE IF 2 * rm > den THEN up
        ELSE down \cup up

\* variant of ClampBrp without the bounds check
ClampBrp_None(f) == f

\* if xbrp < 2: xbrp = 2; if xbrp > 128: xbrp = 128
ClampBrp(f) ==
    IF f.val < 2 \/ (f.val = 2 /\ f.eps < 0) THEN Flt(2, 0)
    ELSE IF f.val > 128 \/ (f.val = 128 /\ f.eps > 0) THEN Flt(128, 0)
    ELSE f

\* xist = x * xbrp; diff = xdesired - xist; if diff < 0: diff = -diff
\* (multiplied by baudrate)
DiffOf(baudrate, x, xbrp) ==
    LET d == FOSC - x * xbrp.val * baudrate
    IN  IF d < 0 THEN 0 - d ELSE d

\* variant of Better that takes every candidate
Better_Always(l, diff, inexact) == {TRUE}

\* the outcomes of (xopt == 0) or (diff <= diffopt): two values that
\* differ only by rounding errors compare either way
Better(l, diff, inexact) ==
    IF l.xopt = 0 \/ diff < l.diffopt THEN {TRUE}
    ELSE IF diff > l.diffopt THEN {FALSE}
    ELSE IF inexact \/ l.inexact THEN {TRUE, FALSE}
    ELSE {TRUE}

\* open_can_channel(baudrate, mode) with the arguments drawn from bauds
\* and modes: transmit("S" + baud_dict[baudrate]) for a preset, the
\* bit-timing search otherwise
OpenCall(c, bauds, modes) ==
    /\ callers[c].pc = "idle"
    /\ serial_port /= "None"
    /\ count.open < MaxOpen
    /\ count.spawn < MaxParsers
    /\ \E b \in bauds, m \in modes :
          LET r == [callers[c] EXCEPT !.op = "open", !.stage = 1,
                                      !.arg = <<b, m>>]
          IN  IF b \in Presets
              THEN WriteLine(c, r, Cmd(r) \o <<CR>>, "tx_check")
              ELSE /\ callers' = [callers EXCEPT ![c] =
                        [r EXCEPT !.pc = "bt_loop",
                                  !.loc = BitTimeLoc(11, 0, 0, FALSE,
                                                     Flt(0, 0))]]
                   /\ UNCHANGED <<wire, parsers>>
    /\ count' = Bump("open")
    /\ UNCHANGED <<session, rxbuf, adapter, delivered>>

\* open_can_channel(125000, ACTIVE)
Open(c) == OpenCall(c, BaudRates, OpenModes)

\* for x in range(11, 23 + 1): one pass of the loop body
BitTimeStep(c) ==
    /\ callers[c].pc = "bt_loop"
    /\ LET r == callers[c]
           l == r.loc
           b == r.arg[1]
       IN  IF l.x > 23
           THEN callers' = [callers EXCEPT ![c].pc = "bt_cmd"]
           ELSE \E f \in RoundBrp(b, l.x) :
                   LET xbrp == ClampBrp(f)
                       diff == DiffOf(b, l.x, xbrp)
                       inexact == xbrp.eps /= 0
                   IN  \E better \in Better(l, diff, inexact) :
                          callers' = [callers EXCEPT ![c].loc =
                             IF better
                             THEN BitTimeLoc(l.x + 1, l.x, diff, inexact,
                                      Flt(xbrp.val \div 2 - 1, xbrp.eps))
                             ELSE [l EXCEPT !.x = l.x + 1]]
    /\ UNCHANGED <<session, wire, rxbuf, adapter, parsers, delivered, count>>

\* cmd = "s{:02x}{:04x}".format(brpopt | 0xC0, cnfvalues[xopt - 11]):
\* brpopt is a float, and float | int raises TypeError
BitTimeCmd(c) ==
    /\ callers[c].pc = "bt_cmd"
    /\ callers' = [callers EXCEPT ![c] = Failed(callers[c], "TypeError")]
    /\ UNCHANGED <<session, wire, rxbuf, adapter, parsers, delivered, count>>

\* start_rx_thread(): self.rx_thread_state = USBtin.RX_THREAD_RUNNING
StartRx(c) ==
    /\ callers[c].pc = "start_rx"
    /\ rx_thread_state' = RX_THREAD_RUNNING
    /\ callers' = [callers EXCEPT ![c].pc = "spawn"]
    /\ UNCHANGED <<serial_port, incoming_message, listeners, tx_fifo, versions,
                   wire, rxbuf, adapter, parsers, delivered, count>>

\* start_rx_thread(): thread.start()
Spawn(c) ==
    /\ callers[c].pc = "spawn"
    /\ count.spawn < MaxParsers
    /\ parsers' = [parsers EXCEPT ![count.spawn + 1].pc = "loop"]
    /\ callers' = [callers EXCEPT ![c] = Done(callers[c], "ok")]
    /\ count' = Bump("spawn")
    /\ UNCHANGED <<session, wire, rxbuf, adapter, delivered>>

\* stop_rx_thread() up to its wait loop, called by op
StopRx(c, op, nextpc) ==
    /\ callers[c].pc = "idle"
    /\ serial_port /= "None"
    /\ count.stop < MaxStop
    /\ IF rx_thread_state = RX_THREAD_STOPPED
       THEN /\ rx_thread_state' = rx_thread_state
            /\ callers' = [callers EXCEPT ![c].op = op, ![c].pc = nextpc]
       ELSE /\ rx_thread_state' = RX_THREAD_TERMINATE
            /\ callers' = [callers EXCEPT ![c].op = op, ![c].pc = "stop_wait"]
    /\ count' = Bump("stop")
    /\ UNCHANGED <<serial_port, incoming_message, listeners, tx_fifo, versions,
                   wire, rxbuf, adapter, parsers, delivered>>

\* close_can_channel(): self.stop_rx_thread()
Close(c) == StopRx(c, "close", "cl_write")

\* disconnect(): self.stop_rx_thread()
Disconnect(c) == StopRx(c, "disconnect", "dc_close")

\* stop_rx_thread(): while self.rx_thread_state != STOPPED: sleep(0.001)
StopWait(c) ==
    /\ callers[c].pc = "stop_wait"
    /\ rx_thread_state = RX_THREAD_STOPPED
    /\ callers' = [callers EXCEPT ![c].pc =
          IF callers[c].op = "close" THEN "cl_write" ELSE "dc_close"]
    /\ UNCHANGED <<session, wire, rxbuf, adapter, parsers, delivered, count>>

\* close_can_channel(): write("C\r"); firmware_version = 0;
\* hardware_version = 0
CloseWrite(c) ==
    /\ callers[c].pc = "cl_write"
    /\ WriteLine(c, Done(callers[c], "ok"), <<"C", CR>>, "ret")
    /\ IF serial_port = "open"
       THEN /\ firmware_version' = Int0
            /\ hardware_version' = Int0
       ELSE UNCHANGED <<firmware_version, hardware_version>>
    /\ UNCHANGED <<serial_port, rx_thread_state, incoming_message, listeners,
                   tx_fifo, serial_number, rxbuf, adapter, delivered, count>>

\* disconnect(): self.serial_port.close()
DisconnectClose(c) ==
    /\ callers[c].pc = "dc_close"
    /\ IF serial_port = "None"
       THEN /\ callers' = [callers EXCEPT ![c] =
                              Failed(callers[c], "AttributeError")]
            /\ UNCHANGED <<serial_port, rxbuf>>
       ELSE /\ serial_port' = "closed"
            /\ rxbuf' = <<>>
            /\ callers' = [callers EXCEPT ![c] = Done(callers[c], "ok")]
    /\ UNCHANGED <<rx_thread_state, incoming_message, listeners, tx_fifo,
                   versions, wire, adapter, parsers, delivered, count>>

\* send(canmsg): self.tx_fifo.append(canmsg)
Send(c) ==
    /\ callers[c].pc = "idle"
    /\ serial_port /= "None"
    /\ count.send < MaxSend
    /\ tx_fifo' = Append(tx_fifo, TxFrame(count.send + 1))
    /\ callers' = SetThread(callers, c,
           [callers[c] EXCEPT !.op = "send", !.pc = "send_len",
                              !.arg = <<count.send + 1>>,
                              !.watch = Watch(tx_fifo, Len(wire), <<>>)],
           TRUE)
    /\ parsers' = TouchAll(parsers)
    /\ count' = Bump("send")
    /\ UNCHANGED <<serial_port, rx_thread_state, incoming_message, listeners,
                   versions, wire, rxbuf, adapter, delivered>>

\* variant of SendLen without the test of the queue length
SendLen_NoTest(c) ==
    /\ callers[c].pc = "send_len"
    /\ callers' = [callers EXCEPT ![c].pc = "sf_len"]
    /\ UNCHANGED <<session, wire, rxbuf, adapter, parsers, delivered, count>>

\* send(): if len(self.tx_fifo) > 1: return
SendLen(c) ==
    /\ callers[c].pc = "send_len"
    /\ callers' = [callers EXCEPT ![c] =
          IF Len(tx_fifo) > 1 THEN Done(@, "ok") ELSE [@ EXCEPT !.pc = "sf_len"]]
    /\ UNCHANGED <<session, wire, rxbuf, adapter, parsers, delivered, count>>

\* send_first_tx_fifo_message(): if len(self.tx_fifo) == 0: return
SendFirstLen(c) ==
    /\ callers[c].pc = "sf_len"
    /\ callers' = [callers EXCEPT ![c] =
          IF Len(tx_fifo) = 0 THEN Done(@, "ok") ELSE [@ EXCEPT !.pc = "sf_write"]]
    /\ UNCHANGED <<session, wire, rxbuf, adapter, parsers, delivered, count>>

\* send_first_tx_fifo_message(): canmsg = self.tx_fifo[0]; write
SendFirstWrite(c) ==
    /\ callers[c].pc = "sf_write"
    /\ IF tx_fifo = <<>>
       THEN /\ callers' = [callers EXCEPT ![c] =
                              Failed(callers[c], "IndexError")]
            /\ UNCHANGED <<wire, parsers>>
       ELSE WriteLine(c, Done(callers[c], "ok"),
                      to_string(Head(tx_fifo)) \o <<CR>>, "ret")
    /\ UNCHANGED <<session, rxbuf, adapter, delivered, count>>

\* write_mcp_register(0x20, 0), a synchronous exchange through transmit()
Transmit(c) ==
    /\ callers[c].pc = "idle"
    /\ serial_port /= "None"
    /\ count.transmit < MaxTransmit
    /\ LET r == [callers[c] EXCEPT !.op = "transmit", !.arg = <<32, 0>>]
       IN  WriteLine(c, r, Cmd(r) \o <<CR>>, "tx_check")
    /\ count' = Bump("transmit")
    /\ UNCHANGED <<session, rxbuf, adapter, delivered>>

\* add_message_listener(func), called at most max times
AddListenerCall(c, max) ==
    /\ callers[c].pc = "idle"
    /\ count.listen < max
    /\ listeners' = Append(listeners, count.listen + 1)
    /\ count' = Bump("listen")
    /\ UNCHANGED <<serial_port, rx_thread_state, incoming_message, tx_fifo,
                   versions, wire, rxbuf, adapter, callers, parsers, delivered>>

AddListener(c) == AddListenerCall(c, MaxListen)

\* remove_message_listener(func): list.remove() takes out the first
\* occurrence and the later entries move up by one
RemoveListener(c) ==
    /\ callers[c].pc = "idle"
    /\ \E func \in 1..count.listen :
          IF \E i \in 1..Len(listeners) : listeners[i] = func
          THEN LET i == CHOOSE j \in 1..Len(listeners) :
                            /\ listeners[j] = func
                            /\ \A k \in 1..(j - 1) : listeners[k] /= func
               IN  /\ listeners' = SubSeq(listeners, 1, i - 1) \o
                                    SubSeq(listeners, i + 1, Len(listeners))
                   /\ callers' = [callers EXCEPT ![c] =
                          Done([callers[c] EXCEPT !.op = "remove"], "ok")]
          ELSE /\ listeners' = listeners
               /\ callers' = [callers EXCEPT ![c] =
                      Failed([callers[c] EXCEPT !.op = "remove"],
                             "USBtinException")]
    /\ UNCHANGED <<serial_port, rx_thread_state, incoming_message, tx_fifo,
                   versions, wire, rxbuf, adapter, parsers, delivered, count>>

\* the call returns to the caller
CallReturn(c) ==
    /\ callers[c].pc = "ret"
    /\ callers' = [callers EXCEPT ![c] = IdleCaller]
    /\ UNCHANGED <<session, wire, rxbuf, adapter, parsers, delivered, count>>

ConnectStep(c) ==
    Connect(c) \/ ConnectFlush(c) \/ ConnectClose(c) \/ ConnectWait(c)
TransmitStep(c) == TxWrite(c) \/ TxCheck(c) \/ RrCheck(c) \/ RrRead(c)
OpenStep(c) == Open(c) \/ StartRx(c) \/ Spawn(c)
StopStep(c) ==
    Close(c) \/ Disconnect(c) \/ StopWait(c) \/ CloseWrite(c) \/ DisconnectClose(c)
SendStep(c) == Send(c) \/ SendLen(c) \/ SendFirstLen(c) \/ SendFirstWrite(c)

\* ---------------------------------------------------------------------
\* Transmit scenario: connect(), one open_can_channel(), then send() and
\* write_mcp_register() calls beside the rx thread and the adapter
\* ---------------------------------------------------------------------
MaxTxOpen == 1

TxCall(c) ==
    \/ ConnectStep(c) \/ TransmitStep(c)
    \/ (count.open < MaxTxOpen /\ Open(c)) \/ StartRx(c) \/ Spawn(c)
    \/ SendStep(c) \/ Transmit(c) \/ CallReturn(c)

TxRx(p) ==
    \/ RxLoop(p) \/ RxByte(p) \/ RxFrameLine(p) \/ RxDispatch(p)
    \/ RxAckLine(p) \/ RxBell(p) \/ RxAckSend(p) \/ RxWrite(p)
    \/ RxClear(p) \/ RxBellReturn(p)

NextTx ==
    \/ TxCall("c1")
    \/ \E p \in Parsers : TxRx(p)
    \/ DeviceAnswer \/ DeviceError \/ DeviceRxLine \/ DeviceEmit

SpecTx == Init /\ [][NextTx]_vars

\* the frame lines written to the port, in order
RECURSIVE FrameLines(_)
FrameLines(w) ==
    IF w = <<>> THEN <<>>
    ELSE IF IsFrameLine(Head(w)) THEN <<Head(w)>> \o FrameLines(Tail(w))
    ELSE FrameLines(Tail(w))

\* what send_first_tx_fifo_message writes for frame m
LineOf(m) == to_string(m) \o <<CR>>

\* the writes since the port had seen n of them
Since(n) == SubSeq(wire, n + 1, Len(wire))

\* C1: send(frame) on an empty queue leaves the queue holding the frame
\* and writes the frame's line once; on a non-empty queue it appends the
\* frame to the tail and writes nothing.  (A call of send() during which
\* the rx thread neither changed the queue nor wrote to the port.)
C1_SendContract ==
    \A c \in Callers :
        LET r == callers[c]
            f == TxFrame(r.arg[1])
        IN  (r.pc = "ret" /\ r.op = "send" /\ ~r.watch.dirty) =>
                /\ tx_fifo = Append(r.watch.q0, f)
                /\ IF r.watch.q0 = <<>>
                   THEN Since(r.watch.w0) = <<LineOf(f)>>
                   ELSE Since(r.watch.w0) = <<>>

\* a second send() returned while the first frame was still the head
C1_Witness ==
    \E c \in Callers :
        /\ callers[c].pc = "ret" /\ callers[c].op = "send"
        /\ ~callers[c].watch.dirty
        /\ Len(callers[c].watch.q0) = 1
        /\ Len(FrameLines(wire)) = 1

\* C2: a completed line starting with z or Z, with a non-empty queue,
\* removes exactly the head; the new head, if there is one, is written
\* once, and nothing is written otherwise.  (A handler run during which no
\* other thread changed the queue or wrote to the port.)
C2_AckAdvances ==
    \A p \in Parsers :
        LET r == parsers[p]
        IN  (r.pc = "clear" /\ r.watch.on /\ ~r.watch.dirty) =>
                /\ r.watch.q0 /= <<>>
                /\ tx_fifo = Tail(r.watch.q0)
                /\ IF Tail(r.watch.q0) /= <<>>
                   THEN Since(r.watch.w0) = <<LineOf(r.watch.q0[2])>>
                   ELSE Since(r.watch.w0) = <<>>

\* an acknowledgement was handled with a second frame waiting
C2_Witness ==
    \E p \in Parsers :
        /\ parsers[p].pc = "clear" /\ parsers[p].watch.on
        /\ ~parsers[p].watch.dirty
        /\ Len(parsers[p].watch.q0) = 2

\* C3: the byte 0x07, wherever it stands in the stream, makes the rx
\* thread write the head of the queue again and leaves the queue and the
\* accumulated line as they were; with an empty queue nothing is written.
\* (A handler run during which no other thread changed them.)
C3_BellResends ==
    \A p \in Parsers :
        LET r == parsers[p]
        IN  (r.pc = "bel_ret" /\ ~r.watch.dirty) =>
                /\ tx_fifo = r.watch.q0
                /\ incoming_message = r.watch.m0
                /\ IF r.watch.q0 /= <<>>
                   THEN Since(r.watch.w0) = <<LineOf(Head(r.watch.q0))>>
                   ELSE Since(r.watch.w0) = <<>>

\* an error marker arrived in the middle of a line, with a frame queued
C3_Witness ==
    \E p \in Parsers :
        /\ parsers[p].pc = "bel_ret" /\ ~parsers[p].watch.dirty
        /\ parsers[p].watch.m0 /= <<>>
        /\ parsers[p].watch.q0 /= <<>>

\* the lines of the frames of the first n send() calls
RECURSIVE SentLines(_)
SentLines(n) == IF n = 0 THEN <<>> ELSE Append(SentLines(n - 1), to_string(TxFrame(n)) \o <<CR>>)

\* the number of entries the rx thread has removed from the queue
Removed == count.send - Len(tx_fifo)

\* C4: with one caller thread and an adapter that acknowledges every
\* frame it is sent (it emits no error marker), the frames are written in
\* the order of their send() calls, each one only after all frames before
\* it were removed by an acknowledgement: at most one written frame is
\* unacknowledged at any time.
C4_FifoOneInFlight ==
    count.bel = 0 =>
        /\ FrameLines(wire) = SentLines(Len(FrameLines(wire)))
        /\ Len(FrameLines(wire)) <= Removed + 1

\* the number of times line l was written
Writes(l) == Cardinality({i \in 1..Len(wire) : wire[i] = l})

\* the number of acknowledgements the adapter has produced so far
RECURSIVE AcksIn(_)
AcksIn(n) ==
    IF n = 0 THEN 0
    ELSE AcksIn(n - 1) + (IF IsFrameLine(wire[n]) THEN 1 ELSE 0)

\* C5: send() in a caller thread beside the rx thread, the adapter
\* acknowledging every write once and emitting no error marker: under
\* every interleaving no frame is written twice and no entry is removed
\* before an acknowledgement for it was produced.
C5_ExactlyOnce ==
    count.bel = 0 =>
        /\ \A k \in 1..count.send : Writes(to_string(TxFrame(k)) \o <<CR>>) <= 1
        /\ Removed <= AcksIn(devpos)

\* ---------------------------------------------------------------------
\* Lifecycle scenario: connect(), open_can_channel(), close_can_channel()
\* and disconnect() from one caller thread, listeners, frames from the bus,
\* an adapter that answers every command
\* ---------------------------------------------------------------------
LifeCall(c) ==
    \/ ConnectStep(c) \/ TransmitStep(c) \/ OpenStep(c) \/ StopStep(c)
    \/ AddListener(c) \/ CallReturn(c)

LifeRx(p) ==
    \/ RxLoop(p) \/ RxExit(p) \/ RxByte(p) \/ RxFrameLine(p)
    \/ RxDispatch(p) \/ RxClear(p)

NextLife ==
    \/ LifeCall("c1")
    \/ \E p \in Parsers : LifeRx(p)
    \/ DeviceAnswer \/ DeviceRxLine \/ DeviceEmit

SpecLife == Init /\ [][NextLife]_vars

\* the rx threads that have started and neither finished nor died
Running == {p \in Parsers : parsers[p].pc \notin {"none", "done", "dead"}}

\* C6: once stop_rx_thread has requested termination the rx thread sets
\* the state to stopped and the call returns, whatever bytes the thread
\* met: a caller waiting in stop_rx_thread always has an rx thread left
\* that will set the state it waits for.
C6_StopReturns ==
    \A c \in Callers :
        callers[c].pc = "stop_wait" =>
            (rx_thread_state = RX_THREAD_STOPPED \/ Running /= {})

\* close_can_channel() or disconnect() has returned to caller c
StopReturned(c) ==
    /\ callers[c].pc = "ret"
    /\ callers[c].op \in {"close", "disconnect"}
    /\ callers[c].res = "ok"

\* C7: the close command is written, and the port is closed, only after
\* the rx thread has confirmed that it stopped; once either call has
\* returned no rx thread invokes a listener, reads from the port or
\* changes the queue.
C7_QuietAfterStop ==
    [][ (\E c \in Callers : StopReturned(c)) =>
            /\ delivered' = delivered
            /\ tx_fifo' = tx_fifo
            /\ \A p \in Parsers :
                  ~(parsers[p].pc = "loop" /\ parsers'[p].pc = "byte") ]_vars

\* C8: whatever the sequence of open_can_channel, close_can_channel and
\* disconnect calls, at most one rx thread is running.
C8_OneParser == Cardinality(Running) <= 1

\* C9: a complete line starting with t, T, r or R whose fields are not
\* hexadecimal or are missing raises nothing: no rx thread ends in
\* from_string.
C9_MalformedRaisesNothing ==
    \A p \in Parsers :
        ~(parsers[p].pc = "dead" /\ parsers[p].exc = "from_string")

\* ---------------------------------------------------------------------
\* Synchronous-exchange scenario: caller c1 connects, opens and closes the
\* channel while caller c2 calls write_mcp_register()
\* ---------------------------------------------------------------------
SyncCall1(c) ==
    \/ ConnectStep(c)
    \/ (count.open < MaxTxOpen /\ Open(c)) \/ StartRx(c) \/ Spawn(c)
    \/ Close(c) \/ StopWait(c) \/ CloseWrite(c)

\* c2 calls once connect() has returned to c1
SyncCall2(c) ==
    /\ count.connect > 0
    /\ callers["c1"].op /= "connect"
    /\ Transmit(c)

SyncRx(p) ==
    \/ RxLoop(p) \/ RxExit(p) \/ RxByte(p) \/ RxBell(p) \/ RxBellReturn(p)

NextSync ==
    \/ SyncCall1("c1")
    \/ SyncCall2("c2")
    \/ \E c \in Callers : TransmitStep(c) \/ CallReturn(c)
    \/ \E p \in Parsers : SyncRx(p)
    \/ DeviceAnswer \/ DeviceError

SpecSync == Init /\ [][NextSync]_vars

\* transmit() called directly has returned to caller c
TransmitReturned(c) == callers[c].pc = "ret" /\ callers[c].op = "transmit"

CodecMids == {0, 291, STD_MAX, STD_MAX + 1, 305419896, MID_MAX, MID_MAX + 1}
CodecData == {NoData, <<>>, <<151>>, <<17, 34>>, <<1, 2, 3, 4, 5, 6, 7, 8>>,
              <<1, 2, 3, 4, 5, 6, 7, 8, 9>>}
CodecDlc == {None, 0, 1, 7, 8, 9}
\* inputs of from_string: the lines of its docstring, a remote line with
\* the length digit f, and lines with missing or non-hexadecimal fields
CodecLines == { <<>>,
                <<"t","1","2","3","0">>,
                <<"t","0","0","1","2","1","1","2","2">>,
                <<"T","1","2","3","4","5","6","7","8","1","9","7">>,
                <<"r","0","0","3","7">>,
                <<"r","1","2","3","f">>,
                <<"R","1","f","f","f","f","f","f","f","8">>,
                <<"t","1","2","3","9","0","0","0","0","0","0","0","0","0",
                  "0","0","0","0","0","0","0","0","0">>,
                <<"t","g">>, <<"t","1","2","3">>, <<"t","1","2","3","1">> }

\* the locals of the codec calls
CodecLoc(frame, line, back) == [frame |-> frame, line |-> line, back |-> back]

\* frame = CANMessage(mid, data, rtr, dlc=dlc)
Construct(c) ==
    /\ callers[c].pc = "idle"
    /\ \E mid \in CodecMids, data \in CodecData, rtr \in BOOLEAN,
          dlc \in CodecDlc :
          LET r == CANMessage(mid, data, rtr, dlc)
              call == [callers[c] EXCEPT !.op = "codec"]
          IN  callers' = [callers EXCEPT ![c] =
                 IF r.ok
                 THEN [call EXCEPT !.pc = "cd_enc",
                                   !.loc = CodecLoc(<<r.val>>, <<>>, <<>>)]
                 ELSE Failed([call EXCEPT !.loc = CodecLoc(<<>>, <<>>, <<>>)],
                             r.exc)]
    /\ UNCHANGED <<session, wire, rxbuf, adapter, parsers, delivered, count>>

\* line = frame.to_string(); '{:01x}'.format(None) raises TypeError
Encode(c) ==
    /\ callers[c].pc = "cd_enc"
    /\ LET r == callers[c]
           f == r.loc.frame[1]
       IN  callers' = [callers EXCEPT ![c] =
              IF f.dlc = None THEN Failed(r, "TypeError")
              ELSE [r EXCEPT !.pc = "cd_dec", !.loc.line = to_string(f)]]
    /\ UNCHANGED <<session, wire, rxbuf, adapter, parsers, delivered, count>>

\* back = CANMessage.from_string(line)
Decode(c) ==
    /\ callers[c].pc = "cd_dec"
    /\ LET r == callers[c]
           b == from_string(r.loc.line)
       IN  callers' = [callers EXCEPT ![c] =
              IF b.ok THEN Done([r EXCEPT !.loc.back = <<b.val>>], "ok")
              ELSE Failed(r, b.exc)]
    /\ UNCHANGED <<session, wire, rxbuf, adapter, parsers, delivered, count>>

\* back = CANMessage.from_string(line) for a line that was received
ParseLine(c) ==
    /\ callers[c].pc = "idle"
    /\ \E l \in CodecLines :
          LET r == [callers[c] EXCEPT !.op = "parse",
                                      !.loc = CodecLoc(<<>>, l, <<>>)]
              b == from_string(l)
          IN  callers' = [callers EXCEPT ![c] =
                 IF b.ok THEN Done([r EXCEPT !.loc.back = <<b.val>>], "ok")
                 ELSE Failed(r, b.exc)]
    /\ UNCHANGED <<session, wire, rxbuf, adapter, parsers, delivered, count>>

CodecCall(c) ==
    Construct(c) \/ Encode(c) \/ Decode(c) \/ ParseLine(c) \/ CallReturn(c)

NextCodec == CodecCall("c1")

SpecCodec == Init /\ [][NextCodec]_vars

\* caller c holds a frame it constructed, with a length of 0 to 8
HoldsFrame(c) ==
    /\ callers[c].op = "codec"
    /\ callers[c].loc.frame /= <<>>
    /\ callers[c].loc.frame[1].dlc \in 0..8

\* caller c has encoded and decoded its frame, or failed doing so
RoundTripDone(c) ==
    /\ HoldsFrame(c)
    /\ callers[c].pc = "ret"
    /\ callers[c].loc.line /= <<>>

\* C12: for every standard or extended, data or remote frame with a
\* length of 0 to 8, from_string(to_string(frame)) raises nothing and gives
\* a frame with the same identifier, extended flag, rtr flag, length and
\* payload bytes.
C12_RoundTrip ==
    \A c \in Callers :
        RoundTripDone(c) =>
            /\ callers[c].res = "ok"
            /\ callers[c].loc.back = callers[c].loc.frame

\* the line of frame f has been produced by caller c
Encoded(c) == HoldsFrame(c) /\ callers[c].loc.line /= <<>>

\* the number of identifier digits of frame f
IdLen(f) == IF f.extended THEN 8 ELSE 3

\* the payload digits of the first n bytes of f, in ascending byte order
RECURSIVE PayloadDigits(_, _)
PayloadDigits(f, n) ==
    IF n = 0 THEN <<>>
    ELSE PayloadDigits(f, n - 1) \o <<HexDigit(f.data[n] \div 16),
                                      HexDigit(f.data[n] % 16)>>

\* C13: the line of a remote frame is the type character, the identifier
\* digits and the length digit and nothing else, for every length 0 to 8;
\* the line of a data frame carries after them exactly `length` pairs of
\* payload digits in ascending byte order.
C13_EncodedLayout ==
    \A c \in Callers :
        Encoded(c) =>
            LET f == callers[c].loc.frame[1]
                l == callers[c].loc.line
                head == 1 + IdLen(f) + 1
            IN  /\ l[1] = (IF f.rtr THEN (IF f.extended THEN "R" ELSE "r")
                                    ELSE (IF f.extended THEN "T" ELSE "t"))
                /\ l[head] = HexDigit(f.dlc)
                /\ IF f.rtr THEN Len(l) = head
                   ELSE SubSeq(l, head + 1, Len(l)) = PayloadDigits(f, f.dlc)

\* the frames caller c holds: the one it constructed, the one it decoded
Produced(c) ==
    IF callers[c].op \in {"codec", "parse"}
    THEN {callers[c].loc.frame[i] : i \in 1..Len(callers[c].loc.frame)}
         \cup {callers[c].loc.back[i] : i \in 1..Len(callers[c].loc.back)}
    ELSE {}

\* C14: every CANMessage produced by the constructor or by from_string
\* has an identifier of at most 0x1fffffff, the extended flag exactly when
\* the identifier exceeds 0x7ff, and a length between 0 and 8.
C14_FrameInvariant ==
    \A c \in Callers : \A f \in Produced(c) :
        /\ f.mid <= MID_MAX
        /\ f.extended = (f.mid > STD_MAX)
        /\ f.dlc \in 0..8


\* ---------------------------------------------------------------------
\* dispatch of received frames (Lifecycle scenario)
\* ---------------------------------------------------------------------
\* rx thread p stands before the terminator of a non-empty line
LineEnds(p) ==
    /\ parsers[p].pc = "byte"
    /\ parsers[p].buf /= <<>>
    /\ Head(parsers[p].buf) = CR
    /\ Len(incoming_message) > 0

\* C11: for each complete line starting with t, T, r or R the rx thread
\* decodes the frame and invokes every registered listener once, in
\* registration order, before it goes on to the next byte; a complete line
\* with another first character invokes no listener; after every complete
\* line the accumulated line is empty.
C11_Dispatch ==
    [][ /\ Len(delivered) <= count.rxl * Len(listeners)
        /\ \A p \in Parsers :
            /\ (LineEnds(p) /\ parsers'[p] /= parsers[p]) =>
                  IF incoming_message[1] \in {"t", "T", "r", "R"}
                  THEN /\ from_string(incoming_message).ok
                       /\ parsers'[p].pc = "dispatch"
                       /\ parsers'[p].msg =
                              <<from_string(incoming_message).val>>
                       /\ parsers'[p].buf = parsers[p].buf
                  ELSE /\ delivered' = delivered
                       /\ incoming_message' = <<>>
            /\ (parsers[p].pc = "dispatch" /\ parsers'[p].pc /= "dispatch") =>
                  LET n == Len(listeners)
                      d == Len(delivered)
                  IN  /\ parsers[p].idx = n
                      /\ d >= n
                      /\ \A i \in 1..n :
                            delivered[d - n + i] =
                                <<listeners[i], parsers[p].msg[1]>>
                      /\ parsers'[p].pc = "clear"
            /\ (parsers[p].pc = "clear" /\ parsers'[p].pc /= "clear") =>
                  /\ incoming_message' = <<>>
                  /\ parsers'[p].buf = Tail(parsers[p].buf) ]_vars


\* ---------------------------------------------------------------------
\* Open scenario: connect(), then open_can_channel() with every mode and
\* with preset and other bit rates
\* ---------------------------------------------------------------------
\* the modes: the three the session defines and one it does not
AllModes == {ACTIVE, LISTENONLY, LOOPBACK, LOOPBACK + 1}
\* bit rates that are no presets
BitTimeRates == {5000, 66800, 83333, 333000, 400000, 615000, 2000000}

OpenAny(c) == OpenCall(c, BaudRates \cup BitTimeRates, AllModes)

OpenSeqCall(c) ==
    \/ ConnectStep(c) \/ TransmitStep(c)
    \/ OpenAny(c) \/ BitTimeStep(c) \/ BitTimeCmd(c)
    \/ StartRx(c) \/ Spawn(c) \/ CallReturn(c)

OpenRx(p) == RxLoop(p) \/ RxByte(p)

NextOpen ==
    \/ OpenSeqCall("c1")
    \/ \E p \in Parsers : OpenRx(p)
    \/ DeviceAnswer

SpecOpen == Init /\ [][NextOpen]_vars

\* the mode command the specification gives for mode m
ModeLine(m) ==
    <<IF m = ACTIVE THEN "O" ELSE IF m = LOOPBACK THEN "l" ELSE "L", CR>>

\* C15: open_can_channel writes the timing command, then the mode command
\* (O for active, l for loop-back, L for listen-only and for any other
\* mode), reads the response of each, and only then starts the rx thread:
\* no rx thread is running before that, in particular not while a response
\* is read.
C15_OpenSequence ==
    \A c \in Callers :
        LET r == callers[c]
        IN  r.op = "open" =>
                /\ r.res /= "TypeError"
                /\ r.pc \in {"tx_check", "rr_check", "rr_read", "tx_write",
                             "start_rx"} =>
                        /\ Running = {}
                        /\ rx_thread_state = RX_THREAD_STOPPED
                /\ r.pc \in {"tx_write", "start_rx"} =>
                        r.obs = <<RX_THREAD_STOPPED, RX_THREAD_STOPPED>>
                /\ r.pc \in {"start_rx", "spawn"} =>
                        /\ r.nw = 2
                        /\ Len(wire) >= 2
                        /\ Head(wire[Len(wire) - 1]) \in {"S", "s"}
                        /\ r.arg[1] \in Presets =>
                              wire[Len(wire) - 1] =
                                  <<"S", BaudDict(r.arg[1]), CR>>
                        /\ wire[Len(wire)] = ModeLine(r.arg[2])

\* the prescaler the search has selected: (brpopt + 1) * 2
Prescaler(l) == Flt((l.brpopt.val + 1) * 2, l.brpopt.eps)

\* C20: for every bit rate that is not a preset the search ends after the
\* lengths 11 to 23 with a length in 11..23 and a prescaler in [2, 128].
C20_SearchRange ==
    \A c \in Callers :
        callers[c].pc = "bt_cmd" =>
            LET l == callers[c].loc
                p == Prescaler(l)
            IN  /\ callers[c].arg[1] \notin Presets
                /\ l.x = 24
                /\ l.xopt \in 11..23
                /\ p.val \in 2..128
                /\ p.val = 2 => p.eps >= 0
                /\ p.val = 128 => p.eps <= 0

\* the search has ended for 333000 bit/s
C20_Witness ==
    \E c \in Callers :
        /\ callers[c].pc = "bt_cmd"
        /\ callers[c].arg[1] = 333000
        /\ callers[c].loc.xopt \in {12, 18}


\* ---------------------------------------------------------------------
\* set_filter(fc): the filter chains and their registers
\* ---------------------------------------------------------------------
\* get_registers() of the mask (j = 0) or of filter j of the k-th chain
\* handed to set_filter: four register values
ChainRegs(k, j) == <<16 * k + j, 128 + 16 * k + j, 64 + j, 32 + k>>

\* FilterChain(mask, filters) with n filters
FilterChain(k, n) ==
    [mask |-> ChainRegs(k, 0), filters |-> [j \in 1..n |-> ChainRegs(k, j)]]

\* registers = [0x00, 0x00, 0x00, 0x00]
ZeroRegs == <<0, 0, 0, 0>>

\* the numbers of filters of the chains handed to set_filter
FilterInputs ==
    {<<>>, <<1, 1, 1>>}
      \cup {<<n>> : n \in 0..5}
      \cup {<<n, m>> : n \in 0..5, m \in 0..5}

\* if len(fc[0].get_filters()) > len(fc[1].get_filters()): swap
Ordered(fc) ==
    IF Len(fc) = 2 /\ Len(fc[1].filters) > Len(fc[2].filters)
    THEN <<fc[2], fc[1]>>
    ELSE fc

\* the conditions on which set_filter raises USBtinException
TooLong(fc) ==
    \/ Len(fc) > 2
    \/ /\ Len(fc) = 2
       /\ (Len(fc[1].filters) > 2) /\ (Len(fc[2].filters) > 4)
    \/ /\ Len(fc) = 1
       /\ Len(fc[1].filters) > 4

\* variant of MaskRegister that ignores maskid
MaskRegister_Bank0(maskid, i) == 32 + i

\* write_mcp_filter_mask_registers: 0x20 + maskid * 4 + i
MaskRegister(maskid, i) == 32 + maskid * 4 + i

\* variant of StartRegister with the filters four registers apart
StartRegister_Linear(filterid) == 4 * filterid

\* write_mcp_filter_registers: startregister[filterid]
StartRegister(filterid) == <<0, 4, 8, 16, 20, 24>>[filterid + 1]

\* the locals of set_filter and of the register-group write in progress:
\* grp is "zero" (no chain given), "mask" or "filter"; registers holds the
\* four values of the group being written, k the register within it
FilterLoc(fc, grp, channel, i, filterid, fcidx, registers, k) ==
    [fc |-> fc, grp |-> grp, channel |-> channel, i |-> i,
     filterid |-> filterid, fcidx |-> fcidx, registers |-> registers,
     k |-> k]

\* if len(fc[fcidx].get_filters()) > i:
\*     registers = fc[fcidx].get_filters()[i].get_registers()
SlotRegs(fc, fcidx, i, registers) ==
    IF Len(fc[fcidx + 1].filters) > i
    THEN fc[fcidx + 1].filters[i + 1]
    ELSE registers

\* set_filter(fc): the checks, up to the first register write
SetFilter(c) ==
    /\ callers[c].pc = "idle"
    /\ serial_port /= "None"
    /\ count.filter < MaxFilter
    /\ \E lens \in FilterInputs :
          LET fc == Ordered([k \in 1..Len(lens) |-> FilterChain(k, lens[k])])
              r  == [callers[c] EXCEPT !.op = "filter"]
          IN  callers' = [callers EXCEPT ![c] =
                 IF fc = <<>>
                 THEN [r EXCEPT !.pc = "sf_write",
                          !.loc = FilterLoc(fc, "zero", 0, 0, 0, 0, ZeroRegs, 0)]
                 ELSE IF TooLong(fc)
                 THEN Failed([r EXCEPT !.loc =
                          FilterLoc(fc, "none", 0, 0, 0, 0, ZeroRegs, 0)],
                          "USBtinException")
                 ELSE [r EXCEPT !.pc = "sf_write",
                          !.loc = FilterLoc(fc, "mask", 0, 0, 0, 0,
                                            fc[1].mask, 0)]]
    /\ count' = Bump("filter")
    /\ UNCHANGED <<session, wire, rxbuf, adapter, parsers, delivered>>

\* write_mcp_filter_mask_registers / write_mcp_filter_registers:
\* self.write_mcp_register(register + i, registers[i])
FilterWrite(c) ==
    /\ callers[c].pc = "sf_write"
    /\ LET l == callers[c].loc
           register == IF l.grp = "filter"
                       THEN StartRegister(l.filterid) + l.k
                       ELSE MaskRegister(l.channel, l.k)
           r == [callers[c] EXCEPT !.arg = <<register, l.registers[l.k + 1]>>]
       IN  WriteLine(c, r, Cmd(r) \o <<CR>>, "tx_check")
    /\ UNCHANGED <<session, rxbuf, adapter, delivered, count>>

\* write_mcp_register has returned: the next register of the group, or the
\* next group of set_filter
FilterNext(c) ==
    /\ callers[c].pc = "sf_next"
    /\ LET r == callers[c]
           l == r.loc
           fc == l.fc
           filterid == l.filterid + 1
           fcidx == IF Len(fc) - 1 > l.fcidx THEN l.fcidx + 1 ELSE l.fcidx
       IN  callers' = [callers EXCEPT ![c] =
              IF l.k < 3
              THEN [r EXCEPT !.pc = "sf_write", !.loc.k = l.k + 1]
              ELSE IF l.grp = "zero"
              THEN IF l.channel = 0
                   THEN [r EXCEPT !.pc = "sf_write", !.loc.channel = 1,
                                  !.loc.k = 0]
                   ELSE Done(r, "ok")
              ELSE IF l.grp = "mask"
              THEN [r EXCEPT !.pc = "sf_write", !.loc =
                       [l EXCEPT !.grp = "filter", !.i = 0, !.k = 0,
                                 !.registers = SlotRegs(fc, l.fcidx, 0,
                                                        ZeroRegs)]]
              ELSE IF l.i + 1 < 2 * (1 + l.channel)
              THEN [r EXCEPT !.pc = "sf_write", !.loc =
                       [l EXCEPT !.filterid = filterid, !.fcidx = fcidx,
                                 !.i = l.i + 1, !.k = 0,
                                 !.registers = SlotRegs(fc, fcidx, l.i + 1,
                                                        l.registers)]]
              ELSE IF l.channel + 1 < 2
              THEN [r EXCEPT !.pc = "sf_write", !.loc =
                       [l EXCEPT !.grp = "mask", !.channel = l.channel + 1,
                                 !.filterid = filterid, !.fcidx = fcidx,
                                 !.i = 0, !.k = 0,
                                 !.registers = fc[fcidx + 1].mask]]
              ELSE Done([r EXCEPT !.loc.filterid = filterid,
                                  !.loc.fcidx = fcidx], "ok")]
    /\ UNCHANGED <<session, wire, rxbuf, adapter, parsers, delivered, count>>

\* ---------------------------------------------------------------------
\* Filter scenario: connect(), then set_filter() with zero to three chains
\* ---------------------------------------------------------------------
FilterCall(c) ==
    \/ ConnectStep(c) \/ TransmitStep(c)
    \/ SetFilter(c) \/ FilterWrite(c) \/ FilterNext(c)
    \/ CallReturn(c)

NextFilter ==
    \/ FilterCall("c1")
    \/ DeviceAnswer
    \/ DeviceError

SpecFilter == Init /\ [][NextFilter]_vars

\* the lines the call in progress of caller c has written
Written(c) == SubSeq(wire, Len(wire) - callers[c].nw + 1, Len(wire))

\* set_filter has raised its configuration error
Rejected(c) ==
    /\ callers[c].pc = "ret"
    /\ callers[c].res = "USBtinException"
    /\ callers[c].nw = 0

\* C16: set_filter raises a configuration error before any register write
\* when more than two chains are given, when a single chain has more than
\* 4 filters, and when of two ordered chains the bank-0 chain has more
\* than 2 filters or the bank-1 chain has more than 4.
C16_RejectsTooLong ==
    \A c \in Callers :
        LET fc == callers[c].loc.fc
        IN  (/\ callers[c].op = "filter"
             /\ \/ Len(fc) > 2
                \/ Len(fc) = 1 /\ Len(fc[1].filters) > 4
                \/ Len(fc) = 2 /\ (\/ Len(fc[1].filters) > 2
                                   \/ Len(fc[2].filters) > 4))
            => Rejected(c)

\* the first register of the n-th register group in the specified order: bank-0
\* mask, filters 0 and 1, bank-1 mask, filters 2, 3, 4 and 5
GroupStart == <<32, 0, 4, 36, 8, 16, 20, 24>>

\* the register the n-th single write of an accepted call goes to
AddrAt(n) == GroupStart[((n - 1) \div 4) + 1] + ((n - 1) % 4)

\* C17: for every accepted input of one or two chains set_filter writes 2
\* mask groups and 6 filter groups of 4 single-register writes each, in
\* the order bank-0 mask, filters 0 and 1, bank-1 mask, filters 2 to 5:
\* what it has written is always a prefix of that sequence, and the whole
\* of it when the call returns.
C17_GroupOrder ==
    \A c \in Callers :
        LET r == callers[c]
        IN  (r.op = "filter" /\ Len(r.loc.fc) \in {1, 2} /\ ~Rejected(c)) =>
                /\ r.nw <= 32
                /\ \A n \in 1..r.nw :
                      /\ Len(Written(c)[n]) = 6
                      /\ SubSeq(Written(c)[n], 1, 3) =
                             <<"W">> \o FormatHex(AddrAt(n), 2)
                      /\ Written(c)[n][6] = CR
                /\ (r.pc = "ret" /\ r.res = "ok") => r.nw = 32

\* set_filter has returned after the writes for two chains
C17_Witness ==
    \E c \in Callers :
        /\ callers[c].op = "filter"
        /\ Len(callers[c].loc.fc) = 2
        /\ callers[c].pc = "ret"
        /\ callers[c].res = "ok"
        /\ callers[c].nw = 32

\* the chain assigned to bank b
BankChain(fc, b) == IF Len(fc) = 2 THEN fc[b + 1] ELSE fc[1]

\* C18: every filter slot of a bank whose index is at or beyond the
\* number of filters of the bank's chain is written with (0, 0, 0, 0).
C18_ZeroPadding ==
    \A c \in Callers :
        LET r == callers[c]
            fc == r.loc.fc
        IN  (r.op = "filter" /\ Len(fc) \in {1, 2} /\ ~Rejected(c)) =>
                \A n \in 1..r.nw :
                    LET g == ((n - 1) \div 4) + 1
                        b == IF g <= 3 THEN 0 ELSE 1
                        i == IF g <= 3 THEN g - 2 ELSE g - 5
                    IN  (g \notin {1, 4} /\ i >= Len(BankChain(fc, b).filters))
                            => SubSeq(Written(c)[n], 4, 5) = <<"0", "0">>

\* C19: set_filter with zero chains writes the registers 0x20 to 0x27,
\* each with value 0, and nothing else.
C19_NoChains ==
    \A c \in Callers :
        LET r == callers[c]
        IN  (r.op = "filter" /\ r.loc.fc = <<>>) =>
                /\ r.nw <= 8
                /\ \A n \in 1..r.nw :
                      Written(c)[n] =
                          <<"W">> \o FormatHex(31 + n, 2) \o <<"0", "0", CR>>
                /\ (r.pc = "ret" /\ r.res = "ok") => r.nw = 8

\* set_filter([]) has returned after its eight writes
C19_Witness ==
    \E c \in Callers :
        /\ callers[c].op = "filter"
        /\ callers[c].loc.fc = <<>>
        /\ callers[c].pc = "ret"
        /\ callers[c].res = "ok"
        /\ callers[c].nw = 8


\* ---------------------------------------------------------------------
\* The result of the bit-timing search
\* ---------------------------------------------------------------------
\* the prescaler of length x: FOSC / (baudrate * x) rounded to the nearest
\* even number, halves up, and clamped
NominalBrp(baudrate, x) ==
    LET den == 2 * baudrate * x
    IN  ClampBrp(Flt(2 * ((2 * FOSC + den) \div (2 * den)), 0))

\* the deviation of length x (multiplied by baudrate)
CandDiff(baudrate, x) == DiffOf(baudrate, x, NominalBrp(baudrate, x))

\* the lengths of minimal deviation
BestLengths(baudrate) ==
    {x \in 11..23 : \A y \in 11..23 :
        CandDiff(baudrate, x) <= CandDiff(baudrate, y)}

\* C21: when several lengths have the same minimal deviation, the search
\* selects the smallest of them.
C21_SmallestTie ==
    \A c \in Callers :
        callers[c].pc = "bt_cmd" =>
            \A x \in BestLengths(callers[c].arg[1]) :
                callers[c].loc.xopt <= x

\* C26: the selected length and prescaler deviate from FOSC / baudrate by
\* no more than any other length in 11..23 with its own rounded and
\* clamped prescaler.
C26_MinimalDeviation ==
    \A c \in Callers :
        callers[c].pc = "bt_cmd" =>
            LET l == callers[c].loc
                b == callers[c].arg[1]
            IN  /\ l.diffopt = DiffOf(b, l.xopt, Prescaler(l))
                /\ \A x \in 11..23 : l.diffopt <= CandDiff(b, x)

\* the search has ended for 83333 bit/s, where the lengths differ in
\* their deviation, with a length that is not the last one
C26_Witness ==
    \E c \in Callers :
        /\ callers[c].pc = "bt_cmd"
        /\ callers[c].arg[1] = 83333
        /\ callers[c].loc.xopt < 23
        /\ \E x \in 11..23 :
              CandDiff(83333, x) > callers[c].loc.diffopt


\* ---------------------------------------------------------------------
\* Frame scenario: a frame is constructed, then its payload is accessed by
\* byte index
\* ---------------------------------------------------------------------
\* the indexes and values of frame[index] = value
ItemIndexes == {0 - 1, 0, 3, 7, 8}
ItemValues == {0 - 1, 0, 1, 165, 255, 256, 511}

\* CANMessage.__getitem__(index): (self._data & mask) >> shift, the byte
\* index of the little-endian payload
getitem(m, index) ==
    IF 0 <= index /\ index <= 7 THEN Return(m.data[index + 1])
    ELSE Raise("USBtinException")

\* variant of setitem that stores the value without the mask
setitem_NoMask(m, index, value) ==
    Return([m EXCEPT !.data[index + 1] = value])

\* CANMessage.__setitem__(index, value): value = (value << shift) & mask;
\* self._data = self._data & (~mask) | value
setitem(m, index, value) ==
    IF 0 <= index /\ index <= 7
    THEN Return([m EXCEPT !.data[index + 1] = value % 256])
    ELSE Raise("USBtinException")

\* the locals of the payload accesses: the frame before and after the
\* write, the outcome of the write and of the read
ItemLoc(before, frame, index, value, setres, got) ==
    [before |-> before, frame |-> frame, index |-> index, value |-> value,
     setres |-> setres, got |-> got]

\* frame[index] = value
SetItem(c) ==
    /\ callers[c].pc = "cd_enc"
    /\ \E index \in ItemIndexes, value \in ItemValues :
          LET f == callers[c].loc.frame[1]
              w == setitem(f, index, value)
          IN  callers' = [callers EXCEPT ![c] =
                 [callers[c] EXCEPT !.op = "item", !.pc = "gi_get", !.loc =
                     ItemLoc(f, IF w.ok THEN w.val ELSE f, index, value,
                             IF w.ok THEN "ok" ELSE w.exc, <<>>)]]
    /\ UNCHANGED <<session, wire, rxbuf, adapter, parsers, delivered, count>>

\* got = frame[index]
GetItem(c) ==
    /\ callers[c].pc = "gi_get"
    /\ LET r == callers[c]
           g == getitem(r.loc.frame, r.loc.index)
       IN  callers' = [callers EXCEPT ![c] =
              IF g.ok THEN Done([r EXCEPT !.loc.got = <<g.val>>], "ok")
              ELSE Failed(r, g.exc)]
    /\ UNCHANGED <<session, wire, rxbuf, adapter, parsers, delivered, count>>

\* the value of eight bits, least significant first
Weigh(bits) ==
    bits[0] + 2 * bits[1] + 4 * bits[2] + 8 * bits[3] + 16 * bits[4]
      + 32 * bits[5] + 64 * bits[6] + 128 * bits[7]

\* bit k of the integer n (two's complement for a negative n)
Bit(n, k) ==
    IF k >= 30 THEN (IF n < 0 THEN 1 ELSE 0)
    ELSE LET q == IF n >= 0 THEN n \div 2^k
                  ELSE 0 - (((0 - n) + 2^k - 1) \div 2^k)
         IN  q - 2 * (IF q >= 0 THEN q \div 2
                      ELSE 0 - (((0 - q) + 1) \div 2))

\* the signals that load_dbc has read for the identifier of the frame:
\* start_bit, size, factor and offset by name
DbcSignals ==
    [RPM    |-> [start_bit |-> 0,  size |-> 8,  factor |-> 1, offset |-> 0],
     Torque |-> [start_bit |-> 4,  size |-> 8,  factor |-> 1, offset |-> 0],
     Gear   |-> [start_bit |-> 12, size |-> 3,  factor |-> 2, offset |-> 1],
     Flag   |-> [start_bit |-> 63, size |-> 1,  factor |-> 1, offset |-> 0],
     Speed  |-> [start_bit |-> 10, size |-> 16, factor |-> 1, offset |-> 0],
     Temp   |-> [start_bit |-> 56, size |-> 8,  factor |-> 2, offset |-> 0]]

\* the values assigned to a signal
SignalValues == {0 - 3, 0 - 1, 0, 1, 5, 255, 256, 1000, 70000}

\* mask = (2**size - 1) << bit_offset: whether bit k is in the mask
InMask(sig, k) == sig.start_bit <= k /\ k < sig.start_bit + sig.size

\* value = int(value / sig['factor'] + sig['offset'])
RawOf(value, sig) ==
    LET a == value + sig.offset * sig.factor
    IN  IF a >= 0 THEN a \div sig.factor
        ELSE 0 - ((0 - a) \div sig.factor)

\* variant of ValueLimb without "& mask"
ValueLimb_NoMask(raw, sig, j) ==
    Weigh([t \in 0..7 |->
              IF sig.start_bit <= 8 * j + t
              THEN Bit(raw, 8 * j + t - sig.start_bit) ELSE 0])

\* value = (value << bit_offset) & mask: byte j of it
ValueLimb(raw, sig, j) ==
    Weigh([t \in 0..7 |->
              IF InMask(sig, 8 * j + t)
              THEN Bit(raw, 8 * j + t - sig.start_bit) ELSE 0])

\* self._data & (~mask): byte j of it
ClearedLimb(data, sig, j) ==
    Weigh([t \in 0..7 |->
              IF InMask(sig, 8 * j + t) THEN 0 ELSE Bit(data[j + 1], t)])

\* a + b of two payloads, byte by byte from byte j on with the carry
RECURSIVE AddLimbs(_, _, _, _)
AddLimbs(a, b, j, carry) ==
    IF j > 8 THEN <<>>
    ELSE LET sum == a[j] + b[j] + carry
         IN  <<sum % 256>> \o AddLimbs(a, b, j + 1, sum \div 256)

\* CANMessage.__setattr__(name, value) for a signal of the frame:
\* self._data = (self._data & (~mask)) + value
setattr(m, sig, value) ==
    LET raw == RawOf(value, sig)
    IN  [m EXCEPT !.data = AddLimbs(
            [j \in 1..8 |-> ClearedLimb(m.data, sig, j - 1)],
            [j \in 1..8 |-> ValueLimb(raw, sig, j - 1)], 1, 0)]

\* the locals of the signal access
SignalLoc(before, frame, dbc, name, value) ==
    [before |-> before, frame |-> frame, dbc |-> dbc, name |-> name,
     value |-> value]

\* CANMessage.load_dbc(dbc) with a file that describes the identifier of
\* the frame held
LoadDbc(c) ==
    /\ callers[c].pc = "cd_enc"
    /\ LET f == callers[c].loc.frame[1]
       IN  callers' = [callers EXCEPT ![c] =
              [callers[c] EXCEPT !.op = "signal", !.pc = "sg_set",
                                 !.loc = SignalLoc(f, f, DbcSignals, "", 0)]]
    /\ UNCHANGED <<session, wire, rxbuf, adapter, parsers, delivered, count>>

\* frame.<name> = value for a signal name
SetSignal(c) ==
    /\ callers[c].pc = "sg_set"
    /\ \E name \in DOMAIN callers[c].loc.dbc, value \in SignalValues :
          LET r == callers[c]
              f == setattr(r.loc.frame, r.loc.dbc[name], value)
          IN  callers' = [callers EXCEPT ![c] =
                 Done([r EXCEPT !.loc.frame = f, !.loc.name = name,
                                !.loc.value = value], "ok")]
    /\ UNCHANGED <<session, wire, rxbuf, adapter, parsers, delivered, count>>

FrameCall(c) ==
    \/ Construct(c) \/ SetItem(c) \/ GetItem(c)
    \/ LoadDbc(c) \/ SetSignal(c)
    \/ CallReturn(c)

NextFrame == FrameCall("c1")

SpecFrame == Init /\ [][NextFrame]_vars

\* the low eight bits of v
LowByte(v) == IF v < 0 THEN v + 256 * ((255 - v) \div 256) ELSE v - 256 * (v \div 256)

\* C22: for every index i in 0..7 and every value v, frame[i] = v followed
\* by frame[i] gives v & 0xFF and leaves the other seven payload bytes
\* unchanged; an index outside 0..7 raises an error on the write and on
\* the read and leaves the payload unchanged.
C22_ByteAccess ==
    \A c \in Callers :
        LET r == callers[c]
            l == r.loc
        IN  r.op = "item" =>
                IF l.index \in 0..7
                THEN /\ l.setres = "ok"
                     /\ \A j \in 1..8 :
                           j /= l.index + 1 => l.frame.data[j] = l.before.data[j]
                     /\ r.pc = "ret" =>
                           /\ r.res = "ok"
                           /\ l.got = <<LowByte(l.value)>>
                ELSE /\ l.setres = "USBtinException"
                     /\ l.frame = l.before
                     /\ r.pc = "ret" => r.res = "USBtinException"

\* frame[3] = 511 was followed by frame[3] on a frame with eight payload
\* bytes
C22_Witness ==
    \E c \in Callers :
        /\ callers[c].op = "item"
        /\ callers[c].pc = "ret"
        /\ callers[c].loc.index = 3
        /\ callers[c].loc.value = 511
        /\ callers[c].loc.got = <<255>>
        /\ callers[c].loc.before.data = <<1, 2, 3, 4, 5, 6, 7, 8>>


\* bit k of the payload of frame m
PayloadBit(m, k) == Bit(m.data[(k \div 8) + 1], k % 8)

\* C27: setting a signal changes only the payload bits inside the mask
\* (2^size - 1) << start_bit, for every value, also one whose raw encoding
\* does not fit in size bits.
C27_SignalMask ==
    \A c \in Callers :
        LET r == callers[c]
            l == r.loc
        IN  (r.op = "signal" /\ r.pc = "ret") =>
                \A k \in 0..63 :
                    (k < l.dbc[l.name].start_bit
                       \/ k >= l.dbc[l.name].start_bit + l.dbc[l.name].size)
                        => PayloadBit(l.frame, k) = PayloadBit(l.before, k)

\* the three-bit signal Gear of a frame with eight payload bytes was set
\* to 1000, and the payload changed
C27_Witness ==
    \E c \in Callers :
        /\ callers[c].op = "signal"
        /\ callers[c].pc = "ret"
        /\ callers[c].loc.name = "Gear"
        /\ callers[c].loc.value = 1000
        /\ callers[c].loc.before.data = <<1, 2, 3, 4, 5, 6, 7, 8>>
        /\ callers[c].loc.frame.data /= callers[c].loc.before.data


\* ---------------------------------------------------------------------
\* close_can_channel and the cached versions
\* ---------------------------------------------------------------------
\* C23: after close_can_channel has returned, the firmware version, the
\* hardware version and the serial number read by connect are cleared.
C23_CloseClears ==
    \A c \in Callers :
        (callers[c].op = "close" /\ callers[c].pc = "ret"
           /\ callers[c].res = "ok") =>
            /\ firmware_version = Int0
            /\ hardware_version = Int0
            /\ serial_number = Int0


\* ---------------------------------------------------------------------
\* set_filter with two chains: the chain each bank is filled from
\* ---------------------------------------------------------------------
\* C24: with two chains, after they are ordered, the bank-0 mask and the
\* bank-0 filter slots are taken from the first chain, the bank-1 mask and
\* the bank-1 filter slots from the second chain, each in its filter
\* order.
C24_BankSources ==
    \A c \in Callers :
        LET r == callers[c]
            fc == r.loc.fc
        IN  (r.op = "filter" /\ Len(fc) = 2 /\ ~Rejected(c)) =>
                \A n \in 1..r.nw :
                    LET g == ((n - 1) \div 4) + 1
                        k == ((n - 1) % 4) + 1
                        chain == fc[IF g <= 3 THEN 1 ELSE 2]
                        i == IF g <= 3 THEN g - 2 ELSE g - 5
                        value(regs) == FormatHex(regs[k], 2)
                    IN  /\ g \in {1, 4} =>
                            SubSeq(Written(c)[n], 4, 5) = value(chain.mask)
                        /\ (g \notin {1, 4} /\ i < Len(chain.filters)) =>
                            SubSeq(Written(c)[n], 4, 5) =
                                value(chain.filters[i + 1])


\* ---------------------------------------------------------------------
\* The handshake of connect
\* ---------------------------------------------------------------------
\* the lines of the handshake in the specified order
ConnectLines ==
    << <<CR, "C", CR>>, <<"C", CR>>, <<"v", CR>>, <<"V", CR>>, <<"N", CR>>,
       <<"W", "2", "D", "0", "0", CR>> >>

\* what connect has written is a prefix of the handshake, and all of it
\* when connect returns
ConnectOrder ==
    \A c \in Callers :
        LET r == callers[c]
        IN  r.op = "connect" =>
                /\ r.nw <= Len(ConnectLines)
                /\ Written(c) = SubSeq(ConnectLines, 1, r.nw)
                /\ (r.pc = "ret" /\ r.res = "ok") => r.nw = Len(ConnectLines)

\* a step of connect: a command after the close command is written by
\* transmit only; transmit is entered only when the terminator of the
\* response before was read (or the error marker, after the close
\* command); the error marker read by read_response ends connect with an
\* error
ConnectExchange ==
    \A c \in Callers :
        LET r == callers[c]
            n == callers'[c]
        IN  (r.op = "connect" /\ n /= r) =>
                /\ (r.nw >= 2 /\ n.nw > r.nw) => r.pc = "tx_write"
                /\ (n.pc = "tx_write" /\ r.pc /= "tx_write") =>
                        /\ rxbuf /= <<>>
                        /\ rxbuf' = Tail(rxbuf)
                        /\ \/ r.pc = "k_wait" /\ Head(rxbuf) \in {CR, BEL}
                           \/ r.pc = "rr_read" /\ Head(rxbuf) = CR
                /\ (r.pc = "rr_read" /\ rxbuf /= <<>> /\ Head(rxbuf) = BEL) =>
                        /\ n.pc = "ret"
                        /\ n.res = "USBtinException"
                        /\ wire' = wire

\* C25: connect writes the reset line, the close command, v, V, N and
\* W2D00 in this order, each command after the close command only when
\* the response before was read up to its terminator; an error marker
\* read for v, V, N or W2D00 raises an error, an error marker read for
\* the close command is accepted.
C25_Handshake == []ConnectOrder /\ [][ConnectExchange]_vars

\* connect has returned after the error marker was read for the close
\* command
C25_Witness ==
    \E c \in Callers :
        /\ callers[c].op = "connect"
        /\ callers[c].pc = "ret"
        /\ callers[c].res = "ok"
        /\ callers[c].nw = 6
        /\ count.bel = 1


\* ---------------------------------------------------------------------
\* Reassembly of lines by the rx thread
\* ---------------------------------------------------------------------
\* the lines the adapter sends, without their terminator
AdapterLines ==
    RxLines \cup {<<"z">>, <<"Z">>, <<"v", "1">>, <<"V", "2">>, <<"N", "7">>}

\* C28: what the rx thread does depends on the bytes received only, not
\* on how they are split over reads: whenever it handles the end of a
\* line, the line it has accumulated is a line as the adapter sent it.
C28_Reassembly ==
    [][\A p \in Parsers :
          (LineEnds(p) /\ parsers'[p] /= parsers[p])
              => incoming_message \in AdapterLines]_vars


\* ---------------------------------------------------------------------
\* An acknowledgement while the queue is empty
\* ---------------------------------------------------------------------
\* C29: an acknowledgement line (z or Z) handled while tx_fifo is empty
\* leaves the queue empty, writes nothing and leaves the rx thread
\* running.
C29_AckOnEmpty ==
    [][\A p \in Parsers :
          (/\ LineEnds(p)
           /\ incoming_message[1] \in {"z", "Z"}
           /\ tx_fifo = <<>>
           /\ parsers'[p] /= parsers[p])
              => /\ tx_fifo' = <<>>
                 /\ wire' = wire
                 /\ parsers'[p].pc /= "dead"]_vars


\* ---------------------------------------------------------------------
\* Reopen scenario: connect(), open_can_channel(), send() while the rx
\* thread runs, close_can_channel() and a second open_can_channel(), with
\* an adapter that acknowledges every frame
\* ---------------------------------------------------------------------
\* an rx thread runs
ParserRuns == rx_thread_state = RX_THREAD_RUNNING /\ Running /= {}

ReopenCall(c) ==
    \/ ConnectStep(c) \/ TransmitStep(c)
    \/ (~ParserRuns /\ Open(c)) \/ StartRx(c) \/ Spawn(c)
    \/ Close(c) \/ StopWait(c) \/ CloseWrite(c)
    \/ (ParserRuns /\ Send(c)) \/ SendLen(c) \/ SendFirstLen(c)
    \/ SendFirstWrite(c)
    \/ CallReturn(c)

ReopenRx(p) ==
    \/ RxLoop(p) \/ RxExit(p) \/ RxByte(p)
    \/ RxAckLine(p) \/ RxAckSend(p) \/ RxWrite(p) \/ RxClear(p)

NextReopen ==
    \/ ReopenCall("c1")
    \/ \E p \in Parsers : ReopenRx(p)
    \/ DeviceAnswer

SpecReopen == Init /\ [][NextReopen]_vars

\* the adapter has answered every line written, every answer was read,
\* no call is in progress and no rx thread has a step to take other than
\* waiting for bytes
Quiescent ==
    /\ \A c \in Callers : callers[c].pc = "idle"
    /\ \A p \in Parsers :
          \/ parsers[p].pc \in {"none", "done", "dead"}
          \/ parsers[p].pc = "loop" /\ rx_thread_state = RX_THREAD_RUNNING
    /\ rxbuf = <<>>
    /\ devout = <<>>
    /\ devpos = Len(wire)

\* the frame of the k-th send() call was written to the port
FrameWritten(k) ==
    \E i \in 1..Len(wire) : wire[i] = to_string(TxFrame(k)) \o <<CR>>

\* C30: if the adapter acknowledges every frame written to it, every
\* frame passed to send() while the rx thread runs is eventually written,
\* also when the channel was closed and reopened while frames were in the
\* queue: once every answer has been handled and nothing is left to do,
\* every such frame has been written.
C30_NoFrameStuck ==
    Quiescent => \A k \in 1..count.send : FrameWritten(k)


\* ---------------------------------------------------------------------
\* The line buffer at the start of an rx thread
\* ---------------------------------------------------------------------
\* start_rx_thread() starts the thread of caller c in this step
Starts(c) == callers[c].pc = "spawn" /\ callers'[c].pc /= "spawn"

\* C31: whenever the rx thread starts (open_can_channel), the line buffer
\* incoming_message is empty, so no partial line of an earlier session is
\* put in front of the first line of the new one.
C31_EmptyAtStart ==
    [][\A c \in Callers : Starts(c) => incoming_message = <<>>]_vars


\* ---------------------------------------------------------------------
\* Listener scenario: connect(), one open_can_channel(), a frame from the
\* bus, and a caller thread that adds and removes listeners while the rx
\* thread dispatches.  The first EarlyListeners listeners are added before
\* the rx thread starts, the later ones after it.
\* ---------------------------------------------------------------------
MaxListeners   == 3   \* add_message_listener() calls of the scenario
EarlyListeners == 2   \* of these, made before the rx thread starts

ListenCall(c) ==
    \/ ConnectStep(c) \/ TransmitStep(c)
    \/ (count.open = 0 /\ Open(c)) \/ StartRx(c) \/ Spawn(c)
    \/ (count.spawn = 0 /\ AddListenerCall(c, EarlyListeners))
    \/ (count.spawn > 0 /\ count.listen >= EarlyListeners
           /\ AddListenerCall(c, MaxListeners))
    \/ RemoveListener(c)
    \/ CallReturn(c)

NextListen ==
    \/ ListenCall("c1")
    \/ \E p \in Parsers :
          \/ RxLoop(p) \/ RxByte(p) \/ RxFrameLine(p)
          \/ RxDispatch(p) \/ RxClear(p)
    \/ DeviceAnswer \/ DeviceRxLine \/ DeviceEmit

SpecListen == Init /\ [][NextListen]_vars

\* the number of times listener func was invoked
Invocations(func) ==
    Cardinality({i \in 1..Len(delivered) : delivered[i][1] = func})

\* rx thread p has finished the dispatch of its frame
Dispatched(p) == parsers[p].pc = "clear" /\ parsers[p].msg /= <<>>

\* func was registered before the rx thread started and still is: it was
\* registered throughout the dispatch (no listener is registered twice)
Stayed(func) ==
    /\ func \in 1..EarlyListeners
    /\ \E i \in 1..Len(listeners) : listeners[i] = func

\* C32: a listener that stays registered throughout the dispatch of a
\* frame is invoked exactly once for that frame, also when another thread
\* adds or removes a different listener during the dispatch.
C32_InvokedOnce ==
    \A p \in Parsers :
        Dispatched(p) =>
            \A func \in 1..EarlyListeners :
                Stayed(func) => Invocations(func) = 1

====
